---- MODULE Spec2Model ----
(***************************************************************************)
(* Model of the generate-then-execute pipeline of the DIDA backend:        *)
(* response parsing (agents/base_agent.py), the code executors of the chat,*)
(* cleaning and feature agents, the report renderer's plot executor, the   *)
(* shared pyplot figure registry they use, and the chat result normaliser; *)
(* ML preparation (agents/ml_prep_agent.py) and schema analysis            *)
(* (agents/schema_analyzer.py); the six agents as their callers see them;  *)
(* the chat prompt; the session directory and the route handlers that read *)
(* and write it (routers/, utils/file_handler.py); and the API keys        *)
(* (services/openai_manager.py).                                           *)
(***************************************************************************)
EXTENDS Integers, Sequences, FiniteSets, TLC

VARIABLES
    figures,    \* pyplot's process-wide registry of open figures, oldest first;
                \* the last one is the current figure.  A figure is the set of
                \* invocation numbers whose code drew on it.
    calls,      \* number of executor invocations made so far
    last,       \* what the most recent invocation was given and what it returned
    response,   \* parse_json_response: the raw model response (token sequence)
    parsed,     \* parse_json_response: its outcome for `response`
    logged,     \* parse_json_response: what logger.error was given
    chat,       \* ChatAgent._process_request: one request and its outcome
    ml,         \* MLPrepAgent.prepare_for_ml: one request and its outcome
    schema,     \* SchemaAnalyzerAgent.execute: the table and the analyses made
    agent,      \* one request to one of the six agents and how it reached the caller
    prompt,     \* ChatAgent._format_user_prompt: a history and the prompt built from it
    session,    \* one session's directory and the requests made on it
    keys        \* OpenAIManager: the system key, the session keys, the last lookup

\* the variables of the specifications of requests, prompts, sessions and keys
more == << agent, prompt, session, keys >>

vars == << figures, calls, last, response, parsed, logged, chat, ml, schema, more >>

(***************************************************************************)
(* Bounds of the model.                                                    *)
(***************************************************************************)
MaxLen == 6      \* longest model response, in tokens
MaxCalls == 2    \* executor invocations in one behaviour
MaxOps == 1      \* statements in one generated code
MaxRows == 22    \* rows of a table or series result
MaxDistinct == 22 \* distinct values of a target column
MaxCount == 4    \* rows of one class of a small target column
MaxCats == 11    \* distinct values of a categorical feature column
SmallRows == 20  \* rows of the small tables given to schema analysis
MaxAnalyses == 2 \* schema analyses of one table in one behaviour
MaxTurns == 7    \* turns of a chat history
MaxRequests == 5 \* requests made on one session
MaxKeyCalls == 3 \* set_session_key and remove_session_key calls before a lookup

(***************************************************************************)
(* Sequence helpers.                                                       *)
(***************************************************************************)
SeqsUpTo(S, n) == UNION { [1..k -> S] : k \in 0..n }

Last(s) == s[Len(s)]

Min(S) == CHOOSE m \in S : \A k \in S : m <= k

\* s[i..] starts with sep
StartsAt(s, sep, i) ==
    /\ i + Len(sep) - 1 <= Len(s)
    /\ \A k \in 1..Len(sep) : s[i + k - 1] = sep[k]

\* Python's `sep in s`
Contains(s, sep) == \E i \in 1..Len(s) : StartsAt(s, sep, i)

\* Python's s.split(sep): the pieces between the non-overlapping occurrences of
\* sep, scanning from the left.
RECURSIVE SplitFrom(_, _, _, _)
SplitFrom(s, sep, i, piece) ==
    IF i > Len(s) THEN << piece >>
    ELSE IF StartsAt(s, sep, i)
         THEN << piece >> \o SplitFrom(s, sep, i + Len(sep), << >>)
         ELSE SplitFrom(s, sep, i + 1, Append(piece, s[i]))

Split(s, sep) == SplitFrom(s, sep, 1, << >>)

(***************************************************************************)
(* Response text.  A response is a sequence of tokens:                     *)
(*   "F"  a code fence (three backticks)      "J"  the word json           *)
(*   "S"  whitespace                          "X"  prose, not JSON         *)
(*   "A", "B"  two different complete JSON documents                       *)
(***************************************************************************)
Fence == << "F" >>
JsonFence == << "F", "J" >>
Documents == { "A", "B" }
Tokens == { "F", "J", "S", "X" } \cup Documents

\* str.strip()
RECURSIVE LStrip(_)
LStrip(s) == IF s # << >> /\ Head(s) = "S" THEN LStrip(Tail(s)) ELSE s

RECURSIVE RStrip(_)
RStrip(s) ==
    IF s # << >> /\ Last(s) = "S" THEN RStrip(SubSeq(s, 1, Len(s) - 1)) ELSE s

Strip(s) == RStrip(LStrip(s))

\* json.loads: surrounding whitespace is skipped; exactly one document must
\* remain.  Otherwise JSONDecodeError, whose text is a message and a position.
JsonLoads(s) ==
    LET body == Strip(s)
        lead == Len(LStrip(s))
        at   == Len(s) - lead       \* offset of the first non-blank character
    IN  IF Len(body) = 1 /\ body[1] \in Documents
        THEN [ok |-> TRUE, value |-> body[1], msg |-> "", pos |-> 0]
        ELSE IF body # << >> /\ body[1] \in Documents
        THEN [ok |-> FALSE, value |-> "", msg |-> "Extra data", pos |-> at + 1]
        ELSE [ok |-> FALSE, value |-> "", msg |-> "Expecting value", pos |-> at]

\* A piece of a formatted message: its literal text and the response tokens
\* interpolated into it.
Part(lit, toks) == [lit |-> lit, toks |-> toks]

NoError == [type |-> "", parts |-> << >>]

\* the text json.loads is given (lines 86-89)
SelectText_CheckFenceFirst(r) ==
    IF Contains(r, Fence) THEN Strip(Split(Split(r, Fence)[2], Fence)[1])
    ELSE IF Contains(r, JsonFence)
         THEN Strip(Split(Split(r, JsonFence)[2], Fence)[1])
    ELSE r

SelectText(r) ==
    IF Contains(r, JsonFence)
    THEN Strip(Split(Split(r, JsonFence)[2], Fence)[1])
    ELSE IF Contains(r, Fence)
         THEN Strip(Split(Split(r, Fence)[2], Fence)[1])
    ELSE r

\* BaseAgent.parse_json_response: the value returned, or the error raised, and
\* the record handed to logger.error.
ParseJsonResponse(r) ==
    LET text == SelectText(r)
        got  == JsonLoads(text)
    IN  IF got.ok
        THEN [ok |-> TRUE, value |-> got.value, error |-> NoError, log |-> << >>]
        ELSE [ok |-> FALSE, value |-> "",
              error |-> [type |-> "ValueError",
                         parts |-> << Part("Failed to parse JSON response: ", << >>),
                                      Part(got.msg, << >>) >>],
              log |-> << Part("JSON parse error: ", << >>), Part(got.msg, << >>),
                         Part("Response: ", text) >>]

(***************************************************************************)
(* Values of executed code.  A cell is one Python object:                  *)
(*   kind  "num" a finite number, "nan", "inf", "ninf", "NA" (None, pd.NA, *)
(*         NaT), "str", "bool", and "null" for the transport null marker   *)
(*   v     which number or string it is                                    *)
(*   np    TRUE when it is a numpy scalar (np.int64, np.float64, np.bool_) *)
(***************************************************************************)
Cell(kind, v, np) == [kind |-> kind, v |-> v, np |-> np]

Null == Cell("null", 0, FALSE)

\* The value bound to `result`: None, a scalar, a DataFrame (rows of cells, in
\* column order) or a Series (index labels and values of one dtype).
NoneResult ==
    [shape |-> "none", scalar |-> Null, rows |-> << >>, index |-> << >>,
     vals |-> << >>, dtype |-> ""]

ScalarResult(c) == [NoneResult EXCEPT !.shape = "scalar", !.scalar = c]

TableResult(rows) == [NoneResult EXCEPT !.shape = "table", !.rows = rows]

SeriesResult(index, vals, dtype) ==
    [NoneResult EXCEPT !.shape = "series", !.index = index, !.vals = vals,
                       !.dtype = dtype]

\* Other values: a list or a numpy array of cells, and a dict.
ListResult(shape, vals) == [NoneResult EXCEPT !.shape = shape, !.vals = vals]

DictResult == [NoneResult EXCEPT !.shape = "dict"]

(***************************************************************************)
(* Generated code.  A code is a list of statements and the way it ends:    *)
(*   "mutate"  changes the object bound to df in place (drops its last row)*)
(*   "rebind"  binds df to a new table (the old one without its first row) *)
(*   "plot"    draws on the current figure, creating one if none is open   *)
(*   "figure"  opens a new figure and makes it current                     *)
(*   "result"  binds `result` to the code's value                          *)
(*   "print"   writes a line to standard output                            *)
(* end: "ok" runs to completion, "error" raises an Exception after the     *)
(* statements, "exit" raises SystemExit after them.  A code that is not    *)
(* valid Python raises SyntaxError before any statement runs.              *)
(***************************************************************************)
Ops == { "mutate", "rebind", "plot", "figure", "result", "print" }
Ends == { "ok", "error", "exit" }

Code(ops, end, val) == [valid |-> TRUE, ops |-> ops, end |-> end, val |-> val]

InvalidCode == [valid |-> FALSE, ops |-> << >>, end |-> "ok", val |-> NoneResult]

EmptyCode == Code(<< >>, "ok", NoneResult)

Draws(code) == \E i \in 1..Len(code.ops) : code.ops[i] \in { "plot", "figure" }

\* Tables the callers pass: the row identifiers, in order.
Tables == { << 1, 2, 3 >> }

DropLast(t) == IF t = << >> THEN t ELSE SubSeq(t, 1, Len(t) - 1)

DropFirst(t) == IF t = << >> THEN t ELSE Tail(t)

\* The state one exec() call works on: the local bindings, the caller's table
\* object, the figure registry, captured output, and the exception raised.
\*   df      content of the object bound to the name df
\*   alias   TRUE while df is bound to the very object the caller passed
\*   caller  content of the object the caller passed
\*   names   the library names bound in local_env
NewEnv(df, alias, names, figs) ==
    [df |-> df, alias |-> alias, caller |-> df, names |-> names, figs |-> figs,
     result |-> NoneResult, out |-> 0, raised |-> "none", msg |-> ""]

Raise(env, kind, msg) == [env EXCEPT !.raised = kind, !.msg = msg]

Statement(env, op, me, val) ==
    IF env.raised # "none" THEN env
    ELSE IF op = "mutate"
    THEN [env EXCEPT !.df = DropLast(env.df),
                     !.caller = IF env.alias THEN DropLast(env.df) ELSE @]
    ELSE IF op = "rebind"
    THEN [env EXCEPT !.df = DropFirst(env.df), !.alias = FALSE]
    ELSE IF op = "plot"
    THEN IF "plt" \notin env.names
         THEN Raise(env, "error", "name 'plt' is not defined")
         ELSE [env EXCEPT !.figs = IF @ = << >> THEN << { me } >>
                                   ELSE [@ EXCEPT ![Len(@)] = @ \cup { me }]]
    ELSE IF op = "figure"
    THEN IF "plt" \notin env.names
         THEN Raise(env, "error", "name 'plt' is not defined")
         ELSE [env EXCEPT !.figs = Append(@, { })]
    ELSE IF op = "result"
    THEN [env EXCEPT !.result = val]
    ELSE [env EXCEPT !.out = @ + 1]

RECURSIVE RunOps(_, _, _, _)
RunOps(ops, env, me, val) ==
    IF ops = << >> THEN env
    ELSE RunOps(Tail(ops), Statement(env, Head(ops), me, val), me, val)

\* exec(code, {}, local_env)
Exec(code, env, me) ==
    IF ~code.valid THEN Raise(env, "error", "invalid syntax")
    ELSE LET e == RunOps(code.ops, env, me, code.val)
         IN  IF e.raised # "none" \/ code.end = "ok" THEN e
             ELSE Raise(e, code.end, IF code.end = "error" THEN "boom" ELSE "1")

(***************************************************************************)
(* What an executor hands back.  keys are the keys of the returned dict;   *)
(* returned is FALSE when the call did not return but let an exception     *)
(* through to its caller.                                                  *)
(***************************************************************************)
NoPlot == [present |-> FALSE, drawn |-> { }]

Plot(fig) == [present |-> TRUE, drawn |-> fig]

NoReturn ==
    [returned |-> FALSE, keys |-> { }, success |-> FALSE, result |-> NoneResult,
     output |-> 0, plot |-> NoPlot, error |-> "", df |-> << >>, code |-> EmptyCode]

Failure(msg) ==
    [NoReturn EXCEPT !.returned = TRUE, !.keys = { "success", "error" },
                     !.error = msg]

\* An executor's effect: what it returned, the figure registry and the caller's
\* table afterwards.
Outcome(ret, figs, df) == [ret |-> ret, figs |-> figs, df |-> df]

\* ChatAgent.execute_code
ExecuteCode(code, df, figs, me) ==
    LET e == Exec(code, NewEnv(df, TRUE, { "pd", "np", "plt" }, figs), me)
    IN  IF e.raised = "none"
        THEN Outcome([NoReturn EXCEPT
                        !.returned = TRUE,
                        !.keys = { "success", "result", "output", "plot" },
                        !.success = TRUE,
                        !.result = e.result,
                        !.output = e.out,
                        !.plot = IF e.figs # << >> THEN Plot(Last(e.figs))
                                 ELSE NoPlot],
                     << >>, e.caller)
        ELSE IF e.raised = "error"
        THEN Outcome(Failure(e.msg), e.figs, e.caller)
        ELSE Outcome(NoReturn, e.figs, e.caller)

(***************************************************************************)
(* The completion client's answer to one request: an error it raises, or a *)
(* response text; code is the "code" entry of the JSON document the text   *)
(* holds.                                                                  *)
(***************************************************************************)
ApiError == [status |-> "error", text |-> << >>, code |-> EmptyCode]

Reply(text, code) == [status |-> "ok", text |-> text, code |-> code]

\* ExecuteOnCopy with local_env["df"] bound to the caller's table itself.
ExecuteOnCopy_NoCopy(reply, df, figs, me, tableKey, metaKey) ==
    LET env == NewEnv(df, TRUE, { "pd", "np" }, figs)
        ai  == ParseJsonResponse(reply.text)
        e   == Exec(reply.code, env, me)
    IN  IF reply.status = "error"
        THEN Outcome(Failure("completion failed"), figs, df)
        ELSE IF ~ai.ok
        THEN Outcome(Failure("Failed to parse JSON response"), figs, df)
        ELSE IF e.raised = "none"
        THEN Outcome([NoReturn EXCEPT
                        !.returned = TRUE,
                        !.keys = { "success", tableKey, "code", metaKey, "summary" },
                        !.success = TRUE,
                        !.df = e.df,
                        !.code = reply.code],
                     e.figs, e.caller)
        ELSE IF e.raised = "error"
        THEN Outcome(Failure(e.msg), e.figs, e.caller)
        ELSE Outcome(NoReturn, e.figs, e.caller)

\* CleaningAgent.execute_cleaning and FeatureAgent.execute_feature_engineering
\* have the same body; tableKey is "cleaned_df" or "engineered_df", metaKey is
\* "steps" or "new_features".
ExecuteOnCopy(reply, df, figs, me, tableKey, metaKey) ==
    LET env == NewEnv(df, FALSE, { "pd", "np" }, figs)
        ai  == ParseJsonResponse(reply.text)
        e   == Exec(reply.code, env, me)
    IN  IF reply.status = "error"
        THEN Outcome(Failure("completion failed"), figs, df)
        ELSE IF ~ai.ok
        THEN Outcome(Failure("Failed to parse JSON response"), figs, df)
        ELSE IF e.raised = "none"
        THEN Outcome([NoReturn EXCEPT
                        !.returned = TRUE,
                        !.keys = { "success", tableKey, "code", metaKey, "summary" },
                        !.success = TRUE,
                        !.df = e.df,
                        !.code = reply.code],
                     e.figs, e.caller)
        ELSE IF e.raised = "error"
        THEN Outcome(Failure(e.msg), e.figs, e.caller)
        ELSE Outcome(NoReturn, e.figs, e.caller)

ExecuteCleaning(reply, df, figs, me) ==
    ExecuteOnCopy(reply, df, figs, me, "cleaned_df", "steps")

ExecuteFeatureEngineering(reply, df, figs, me) ==
    ExecuteOnCopy(reply, df, figs, me, "engineered_df", "new_features")

\* plt.clf(): clears the current figure; pyplot opens one when none is open
Clf(figs) == IF figs = << >> THEN << { } >> ELSE [figs EXCEPT ![Len(figs)] = { }]

\* ReportGenerator._execute_plot: the image buffer, or None
ExecutePlot(code, df, figs, me) ==
    LET e == Exec(code, NewEnv(df, TRUE, { "plt", "sns", "pd", "np" }, Clf(figs)), me)
    IN  IF e.raised = "none"
        THEN Outcome([NoReturn EXCEPT !.returned = TRUE,
                                      !.plot = Plot(Last(e.figs))],
                     << >>, e.caller)
        ELSE IF e.raised = "error"
        THEN Outcome([NoReturn EXCEPT !.returned = TRUE], e.figs, e.caller)
        ELSE Outcome(NoReturn, e.figs, e.caller)

(***************************************************************************)
(* The chat result normaliser (ChatAgent._process_request, lines 153-186)  *)
(* and the pandas operations it calls.                                     *)
(***************************************************************************)
HeadRows == 20

\* pd.isna on one object
IsNa(c) == c.kind \in { "nan", "NA" }

\* .replace([np.inf, -np.inf], np.nan), cell by cell
ReplaceInf(c) == IF c.kind \in { "inf", "ninf" } THEN Cell("nan", 0, c.np) ELSE c

\* .head(20)
HeadOf(s) == SubSeq(s, 1, IF Len(s) < HeadRows THEN Len(s) ELSE HeadRows)

\* numpy scalar to Python scalar: .item(), and what to_dict('records') does to
\* every value
Item(c) == [c EXCEPT !.np = FALSE]

\* Iterating a Series: a numeric dtype yields Python scalars, the object dtype
\* yields the objects as they are stored.
IterValue(c, dtype) == IF dtype = "object" THEN c ELSE Item(c)

NoneIfNa(c) == IF IsNa(c) THEN Null ELSE c

\* lines 157-166: the records of a DataFrame result
NormalizeTable(rows) ==
    [i \in 1..Len(HeadOf(rows)) |->
        [j \in 1..Len(rows[i]) |-> NoneIfNa(Item(ReplaceInf(rows[i][j])))]]

\* lines 167-170: the {index, value} pairs of a Series result, as << index, value >>
NormalizeSeries(r) ==
    [i \in 1..Len(HeadOf(r.vals)) |->
        << r.index[i], NoneIfNa(IterValue(ReplaceInf(r.vals[i]), r.dtype)) >>]

\* lines 171-176: a scalar result
NormalizeScalar(c) ==
    IF IsNa(c) THEN Null
    ELSE IF c.np /\ c.kind \in { "num", "inf", "ninf" } THEN Item(c)
    ELSE c

NoData == [present |-> FALSE, rows |-> << >>]

Data(rows) == [present |-> TRUE, rows |-> rows]

\* models.schemas.ChatResponse.  The response text is the model's text, then
\* "Result: <value>" (suffix "result") or "(Error executing code: <error>)"
\* (suffix "error").
ChatResponse(suffix, value, error, visualization, data_result, code) ==
    [text |-> "response_text", suffix |-> suffix, value |-> value, error |-> error,
     visualization |-> visualization, data_result |-> data_result,
     code_executed |-> code]

NoResponse == ChatResponse("", Null, "", NoPlot, NoData, EmptyCode)

Responded(r) == [status |-> "response", raised |-> "", response |-> r]

Propagated(kind) == [status |-> "raised", raised |-> kind, response |-> NoResponse]

\* `if pd.isna(result_val):` of line 173 for a result that is no table, no
\* series and not None.  pd.isna of a list or an array is an array of
\* booleans, whose truth value is that of its element when it has one and a
\* ValueError when it has two or more; pd.isna of a dict is False.
IfIsNa(rv) ==
    IF rv.shape = "scalar" THEN IF IsNa(rv.scalar) THEN "True" ELSE "False"
    ELSE IF rv.shape \in { "list", "array" }
    THEN IF Len(rv.vals) >= 2 THEN "ValueError"
         ELSE IF IsNa(rv.vals[1]) THEN "True" ELSE "False"
    ELSE "False"

\* lines 171-179: the value the response text ends with
NormalizeValue(rv) ==
    IF rv.shape = "scalar" THEN NormalizeScalar(rv.scalar)
    ELSE IF IfIsNa(rv) = "True" THEN Null
    ELSE Cell(rv.shape, Len(rv.vals), FALSE)

\* ChatAgent._process_request: the ChatResponse, or the exception let through,
\* and the figure registry afterwards
ProcessRequest(reply, df, figs, me) ==
    LET ai == ParseJsonResponse(reply.text)
        o  == ExecuteCode(reply.code, df, figs, me)
        rv == o.ret.result
        other == rv.shape \notin { "table", "series", "none" }
    IN  IF reply.status = "error"
        THEN [out |-> Propagated("APIError"), exec |-> NoReturn, figs |-> figs]
        ELSE IF ~ai.ok
        THEN [out |-> Propagated("ValueError"), exec |-> NoReturn, figs |-> figs]
        ELSE IF ~o.ret.returned
        THEN [out |-> Propagated("SystemExit"), exec |-> o.ret, figs |-> o.figs]
        ELSE IF ~o.ret.success
        THEN [out |-> Responded(ChatResponse("error", Null, o.ret.error, NoPlot,
                                             NoData, reply.code)),
              exec |-> o.ret, figs |-> o.figs]
        ELSE IF other /\ IfIsNa(rv) = "ValueError"
        THEN [out |-> Propagated("ValueError"), exec |-> o.ret, figs |-> o.figs]
        ELSE [out |-> Responded(ChatResponse(
                        IF other THEN "result" ELSE "",
                        IF other THEN NormalizeValue(rv) ELSE Null,
                        "",
                        o.ret.plot,
                        IF rv.shape = "table" THEN Data(NormalizeTable(rv.rows))
                        ELSE IF rv.shape = "series" THEN Data(NormalizeSeries(rv))
                        ELSE NoData,
                        reply.code)),
              exec |-> o.ret, figs |-> o.figs]

(***************************************************************************)
(* Idle values of the variables a specification does not use.              *)
(***************************************************************************)
NoLast ==
    [kind |-> "none", me |-> 0, code |-> EmptyCode, reply |-> ApiError,
     dfBefore |-> << >>, dfAfter |-> << >>, figsBefore |-> << >>,
     ret |-> NoReturn, llmCalls |-> 0]

NoParse == [ok |-> FALSE, value |-> "", error |-> NoError, log |-> << >>]

NoChat ==
    [phase |-> "idle", reply |-> ApiError, df |-> << >>, exec |-> NoReturn,
     out |-> Propagated("")]

NoMl == [phase |-> "idle"]

NoSchema == [phase |-> "idle"]

NoAgent == [phase |-> "idle"]

NoPrompt == [phase |-> "idle"]

NoSession == [phase |-> "idle"]

NoKeys == [phase |-> "idle"]

IdleMore ==
    /\ agent = NoAgent
    /\ prompt = NoPrompt
    /\ session = NoSession
    /\ keys = NoKeys

Invocation(kind, me, code, reply, df, figs, o, llmCalls) ==
    [kind |-> kind, me |-> me, code |-> code, reply |-> reply, dfBefore |-> df,
     dfAfter |-> o.df, figsBefore |-> figs, ret |-> o.ret, llmCalls |-> llmCalls]

(***************************************************************************)
(* Spec: the executors, called one after another in any order on the       *)
(* shared figure registry (every route handler is a coroutine that runs an *)
(* agent call to completion without awaiting).                             *)
(***************************************************************************)
ScalarOne == ScalarResult(Cell("num", 1, FALSE))

\* statements that touch the table or the figures
TableOps == { "mutate", "rebind", "plot", "figure" }

Codes ==
    { Code(ops, end, ScalarOne) : ops \in SeqsUpTo(TableOps, MaxOps), end \in Ends }
        \cup { InvalidCode }

\* responses the completion client gives in Spec
ReplyTexts == { << "A" >>, << "F", "J", "S", "A", "S", "F" >>, << "X" >> }

Replies ==
    { ApiError } \cup { Reply(<< "X" >>, EmptyCode) }
        \cup { Reply(t, c) : t \in ReplyTexts \ { << "X" >> }, c \in Codes }

IdleParse ==
    /\ response = << >>
    /\ parsed = NoParse
    /\ logged = << >>

IdlePrep ==
    /\ ml = NoMl
    /\ schema = NoSchema
    /\ IdleMore

Init ==
    /\ figures = << >>
    /\ calls = 0
    /\ last = NoLast
    /\ IdleParse
    /\ chat = NoChat
    /\ IdlePrep

ChatExecuteCode ==
    \E code \in Codes, df \in Tables :
        LET o == ExecuteCode(code, df, figures, calls + 1)
        IN  /\ calls < MaxCalls
            /\ figures' = o.figs
            /\ calls' = calls + 1
            /\ last' = Invocation("chat", calls + 1, code, ApiError, df, figures, o, 0)
            /\ UNCHANGED << response, parsed, logged, chat, ml, schema, more >>

CleanExecute ==
    \E reply \in Replies, df \in Tables :
        LET o == ExecuteCleaning(reply, df, figures, calls + 1)
        IN  /\ calls < MaxCalls
            /\ figures' = o.figs
            /\ calls' = calls + 1
            /\ last' = Invocation("clean", calls + 1, reply.code, reply, df, figures, o, 1)
            /\ UNCHANGED << response, parsed, logged, chat, ml, schema, more >>

FeatureExecute ==
    \E reply \in Replies, df \in Tables :
        LET o == ExecuteFeatureEngineering(reply, df, figures, calls + 1)
        IN  /\ calls < MaxCalls
            /\ figures' = o.figs
            /\ calls' = calls + 1
            /\ last' = Invocation("feature", calls + 1, reply.code, reply, df, figures, o, 1)
            /\ UNCHANGED << response, parsed, logged, chat, ml, schema, more >>

ReportExecutePlot ==
    \E code \in Codes, df \in Tables :
        LET o == ExecutePlot(code, df, figures, calls + 1)
        IN  /\ calls < MaxCalls
            /\ figures' = o.figs
            /\ calls' = calls + 1
            /\ last' = Invocation("plot", calls + 1, code, ApiError, df, figures, o, 0)
            /\ UNCHANGED << response, parsed, logged, chat, ml, schema, more >>

Next == ChatExecuteCode \/ CleanExecute \/ FeatureExecute \/ ReportExecutePlot

Spec == Init /\ [][Next]_vars

\* the code of the last invocation was executed and did not run to completion
CodeRaised ==
    /\ last.kind \in { "chat", "clean", "feature", "plot" }
    /\ last.kind \in { "clean", "feature" } =>
           last.reply.status = "ok" /\ ParseJsonResponse(last.reply.text).ok
    /\ ~last.code.valid \/ last.code.end # "ok"
           \/ (last.kind \in { "clean", "feature" } /\ Draws(last.code))

\* str(e) of the exception a code ends with
ErrorText(code) ==
    IF ~code.valid THEN "invalid syntax"
    ELSE IF code.end = "error" THEN "boom" ELSE "1"

\* C1: whenever the code run by execute_code, execute_cleaning or
\* execute_feature_engineering raises, the table the caller passed in is
\* afterwards equal to what it was before the call.
C1_RaisingCodeLeavesCallerTable ==
    (CodeRaised /\ last.kind \in { "chat", "clean", "feature" })
        => last.dfAfter = last.dfBefore

\* C2: when ChatAgent.execute_code has been invoked, no figure is left open,
\* whether it returned success or failure.
C2_ChatLeavesNoFigureOpen ==
    last.kind = "chat" => figures = << >>

\* C3: the chart an invocation of execute_code or _execute_plot returns holds
\* only what that invocation's own code drew, and a chat code that draws
\* nothing gets no plot.
C3_ChartIsTheInvocationsOwn ==
    (last.kind \in { "chat", "plot" } /\ last.ret.returned)
        => /\ last.ret.plot.drawn \subseteq { last.me }
           /\ (last.kind = "chat" /\ ~Draws(last.code)) => ~last.ret.plot.present

\* C4: for every code that does not run to completion (invalid syntax, an
\* error, an exit request) execute_code returns a failure result: success is
\* false, the error is the exception's text, and nothing else is in it.
C4_ChatFailureIsReturned ==
    (last.kind = "chat" /\ CodeRaised)
        => /\ last.ret.returned
           /\ ~last.ret.success
           /\ last.ret.keys = { "success", "error" }
           /\ last.ret.error = ErrorText(last.code)

\* what the statements of a code leave bound to df, stated on the statements
RECURSIVE BoundAfter(_, _)
BoundAfter(ops, df) ==
    IF ops = << >> THEN df
    ELSE BoundAfter(Tail(ops),
                    IF Head(ops) = "mutate" THEN SubSeq(df, 1, Len(df) - 1)
                    ELSE IF Head(ops) = "rebind" THEN SubSeq(df, 2, Len(df))
                    ELSE df)

\* C11: when execute_cleaning or execute_feature_engineering succeeds, the
\* table it returns is the one bound to df after the generated code ran,
\* whether the code mutated it in place or reassigned it, and the table the
\* caller passed in is as it was.
C11_ReturnsNewTableCallerUnchanged ==
    (last.kind \in { "clean", "feature" } /\ last.ret.returned /\ last.ret.success)
        => /\ last.ret.df = BoundAfter(last.code.ops, last.dfBefore)
           /\ last.dfAfter = last.dfBefore
           /\ (IF last.kind = "clean" THEN "cleaned_df" ELSE "engineered_df")
                  \in last.ret.keys

\* C11 witness: a cleaning code that mutates df in place succeeded; the
\* returned table lost a row and the caller's did not.
C11_Witness ==
    /\ last.kind = "clean"
    /\ last.ret.returned /\ last.ret.success
    /\ last.code.ops = << "mutate" >>
    /\ last.dfBefore = << 1, 2, 3 >>
    /\ last.ret.df = << 1, 2 >>
    /\ last.dfAfter = << 1, 2, 3 >>

(***************************************************************************)
(* SpecParse: parse_json_response applied to every response of up to       *)
(* MaxLen tokens.                                                          *)
(***************************************************************************)
Responses == SeqsUpTo(Tokens, MaxLen)

IdleExec ==
    /\ figures = << >>
    /\ calls = 0
    /\ last = NoLast

InitParse ==
    /\ response \in Responses
    /\ parsed = NoParse
    /\ logged = << >>
    /\ IdleExec
    /\ chat = NoChat
    /\ IdlePrep

ParseDone == parsed.ok \/ parsed.error.type # ""

Parse ==
    /\ ~ParseDone
    /\ parsed' = ParseJsonResponse(response)
    /\ logged' = ParseJsonResponse(response).log
    /\ UNCHANGED << response, figures, calls, last, chat, ml, schema, more >>

NextParse == Parse

SpecParse == InitParse /\ [][NextParse]_vars

\* The selection stated on positions: the text between a marker and the next
\* fence after it (or the end of the response).
FirstAt(r, sep) == Min({ i \in 1..Len(r) : StartsAt(r, sep, i) })

From(r, i) == SubSeq(r, i, Len(r))

UpToFence(s) ==
    LET at == { i \in 1..Len(s) : s[i] = "F" }
    IN  IF at = { } THEN s ELSE SubSeq(s, 1, Min(at) - 1)

Chosen(r) ==
    IF \E i \in 1..Len(r) : StartsAt(r, JsonFence, i)
    THEN UpToFence(From(r, FirstAt(r, JsonFence) + 2))
    ELSE IF \E i \in 1..Len(r) : r[i] = "F"
    THEN UpToFence(From(r, FirstAt(r, Fence) + 1))
    ELSE r

\* C5: parse_json_response parses the content of the first block fenced with
\* the json marker if there is one, else the content of the first fenced block,
\* else the whole text, and returns the document that text holds.
C5_SelectsJsonBlockFirst ==
    ParseDone =>
        /\ parsed.ok = JsonLoads(Chosen(response)).ok
        /\ parsed.ok => parsed.value = JsonLoads(Chosen(response)).value

\* C5 witness: an unmarked fenced block holding document A comes before a json
\* block holding document B, and B was returned.
C5_Witness ==
    /\ response = << "F", "A", "F", "F", "J", "B" >>
    /\ parsed.ok
    /\ parsed.value = "B"

\* C6: when the text to parse is not valid JSON, parse_json_response raises an
\* error whose message includes the response text.
C6_ErrorIncludesResponse ==
    (ParseDone /\ ~parsed.ok)
        => /\ parsed.error.type = "ValueError"
           /\ \E i \in 1..Len(parsed.error.parts) :
                  parsed.error.parts[i].toks = response

(***************************************************************************)
(* SpecChat: one chat request through ChatAgent._process_request, for      *)
(* every answer of the completion client and every result the generated    *)
(* code can bind, up to MaxRows rows.                                      *)
(***************************************************************************)
Plain(i) == Cell("num", i, FALSE)

Wrapped(i) == Cell("num", i, TRUE)

\* objects an object-dtype column can hold besides plain numbers
Objects ==
    { Cell("nan", 0, FALSE), Cell("inf", 0, FALSE), Cell("ninf", 0, FALSE),
      Cell("NA", 0, FALSE), Cell("str", 0, FALSE), Wrapped(0) }

\* what a float64 column holds besides finite numbers
Floats == { Cell("nan", 0, TRUE), Cell("inf", 0, TRUE), Cell("ninf", 0, TRUE) }

\* labels an index can hold besides plain numbers
Labels == { Cell("nan", 0, FALSE), Cell("str", 0, FALSE) }

Scalars ==
    Objects \cup Floats \cup
        { Plain(1), Wrapped(1), Cell("bool", 1, FALSE), Cell("bool", 1, TRUE) }

\* the rows where the one unusual cell is put: none (0), the first, the last,
\* the last one kept by head() and the first one cut
Positions(n) == { 0 } \cup { p \in { 1, HeadRows, HeadRows + 1, n } : 1 <= p /\ p <= n }

TableOf(n, p, c) ==
    TableResult([i \in 1..n |-> << Plain(i), IF i = p THEN c ELSE Wrapped(i) >>])

SeriesOf(n, p, c, dtype) ==
    SeriesResult([i \in 1..n |-> Plain(i)],
                 [i \in 1..n |-> IF i = p THEN c
                                 ELSE IF dtype = "object" THEN Plain(i)
                                 ELSE Wrapped(i)],
                 dtype)

LabelledSeriesOf(n, p, c) ==
    SeriesResult([i \in 1..n |-> IF i = p THEN c ELSE Plain(i)],
                 [i \in 1..n |-> Wrapped(i)], "float64")

\* lists and arrays of one, two or three cells
Lists ==
    { ListResult(shape, [i \in 1..n |-> c]) :
      shape \in { "list", "array" }, n \in 1..3, c \in { Plain(1), Cell("nan", 0, FALSE) } }

Results ==
    { NoneResult, DictResult } \cup Lists \cup { ScalarResult(c) : c \in Scalars }
        \cup UNION { { TableOf(n, p, c) : p \in Positions(n), c \in Objects \cup Floats } :
                     n \in 0..MaxRows }
        \cup UNION { { SeriesOf(n, p, c, "object") : p \in Positions(n), c \in Objects } :
                     n \in 0..MaxRows }
        \cup UNION { { SeriesOf(n, p, c, "float64") : p \in Positions(n), c \in Floats } :
                     n \in 0..MaxRows }
        \cup UNION { { LabelledSeriesOf(n, p, c) : p \in Positions(n), c \in Labels } :
                     n \in 0..MaxRows }

ChatCodes ==
    { Code(ops, end, val) : ops \in { << "result" >>, << "print", "plot", "result" >> },
                            end \in Ends, val \in Results }
        \cup { InvalidCode }

ChatReplies ==
    { ApiError, Reply(<< "X" >>, EmptyCode) }
        \cup { Reply(<< "F", "J", "S", "A", "S", "F" >>, c) : c \in ChatCodes }

InitChat ==
    /\ chat \in { [NoChat EXCEPT !.phase = "pending", !.reply = r, !.df = t] :
                  r \in ChatReplies, t \in Tables }
    /\ IdleExec
    /\ IdleParse
    /\ IdlePrep

ChatProcessRequest ==
    LET got == ProcessRequest(chat.reply, chat.df, figures, 1)
    IN  /\ chat.phase = "pending"
        /\ chat' = [chat EXCEPT !.phase = "done", !.exec = got.exec, !.out = got.out]
        /\ figures' = got.figs
        /\ UNCHANGED << calls, last, response, parsed, logged, ml, schema, more >>

NextChat == ChatProcessRequest

SpecChat == InitChat /\ [][NextChat]_vars

\* the generated code of the request was executed and ran to completion
ChatSucceeded ==
    /\ chat.phase = "done"
    /\ chat.exec.returned
    /\ chat.exec.success

\* the generated code of the request was executed and did not run to completion
ChatCodeFailed ==
    /\ chat.phase = "done"
    /\ chat.reply.status = "ok"
    /\ ParseJsonResponse(chat.reply.text).ok
    /\ ~chat.reply.code.valid \/ chat.reply.code.end # "ok"

NonFinite(c) == c.kind \in { "nan", "inf", "ninf", "NA" }

\* the normalised cell stands for the source cell: the null marker for a
\* non-finite one, else the same value
StandsFor(out, src) ==
    IF NonFinite(src) THEN out = Null
    ELSE out.kind = src.kind /\ out.v = src.v

MinOf(a, b) == IF a < b THEN a ELSE b

\* C7: for a table or series result, data_result is the first min(20, n) rows
\* in their order, every non-finite cell is the null marker, and no entry of
\* data_result is an infinity or a not-a-number.
C7_DataResultCappedAndFinite ==
    LET rv  == chat.exec.result
        out == chat.out.response.data_result
        n   == IF rv.shape = "table" THEN Len(rv.rows) ELSE Len(rv.vals)
    IN  (ChatSucceeded /\ rv.shape \in { "table", "series" })
            => /\ out.present
               /\ Len(out.rows) = MinOf(HeadRows, n)
               /\ \A i \in 1..Len(out.rows) :
                      /\ rv.shape = "table" =>
                             \A j \in 1..Len(rv.rows[i]) :
                                 StandsFor(out.rows[i][j], rv.rows[i][j])
                      /\ rv.shape = "series" =>
                             /\ out.rows[i][1].v = rv.index[i].v
                             /\ StandsFor(out.rows[i][2], rv.vals[i])
                      /\ \A j \in 1..Len(out.rows[i]) :
                             out.rows[i][j].kind \notin { "nan", "inf", "ninf" }

\* C8: a non-finite scalar result is normalised to the null marker, any other
\* to the same value as a plain number, string or boolean.
C8_ScalarNormalised ==
    LET rv == chat.exec.result
        v  == chat.out.response.value
    IN  (ChatSucceeded /\ rv.shape = "scalar")
            => /\ chat.out.response.suffix = "result"
               /\ StandsFor(v, rv.scalar)
               /\ ~v.np

\* C9: no value placed in the data of a ChatResponse is a numpy scalar: table
\* cells, series index and value entries.
C9_NoWrapperInResponse ==
    LET out == chat.out.response.data_result
    IN  (chat.phase = "done" /\ chat.out.status = "response")
            => \A i \in 1..Len(out.rows) :
                   \A j \in 1..Len(out.rows[i]) : ~out.rows[i][j].np

\* C10: when the generated code fails, the chat operation still returns a
\* ChatResponse, with the error text appended to the response text, no
\* data_result, no visualization, and the generated code as code_executed.
C10_FailureStillAnswers ==
    ChatCodeFailed
        => /\ chat.out.status = "response"
           /\ chat.out.response.suffix = "error"
           /\ chat.out.response.error = ErrorText(chat.reply.code)
           /\ ~chat.out.response.data_result.present
           /\ ~chat.out.response.visualization.present
           /\ chat.out.response.code_executed = chat.reply.code

(***************************************************************************)
(* The ML preparation engine (agents/ml_prep_agent.py).                    *)
(*                                                                         *)
(* A table is a sequence of columns.  A column is known by its name, its   *)
(* dtype, the number of times each of its distinct non-null values occurs  *)
(* (hist, the values in sorted order) and its number of nulls: these are   *)
(* what nunique, isna, value_counts, get_dummies, LabelEncoder and the     *)
(* stratified split read of it.                                            *)
(***************************************************************************)
Column(name, dtype, hist, nulls) ==
    [name |-> name, dtype |-> dtype, hist |-> hist, nulls |-> nulls]

RECURSIVE Sum(_)
Sum(s) == IF s = << >> THEN 0 ELSE Head(s) + Sum(Tail(s))

\* len(series)
RowsOf(col) == Sum(col.hist) + col.nulls

\* series.nunique(): nulls are not counted
NUnique(col) == Len(col.hist)

\* pd.api.types.is_numeric_dtype: true of the integer, float and bool dtypes
IsNumericDtype(dtype) == dtype \in { "number", "bool" }

\* select_dtypes(include=[np.number]): bool is not a np.number
IsNumber(dtype) == dtype = "number"

ColumnNames(df) == { df[i].name : i \in 1..Len(df) }

ColumnOf(df, name) == df[CHOOSE i \in 1..Len(df) : df[i].name = name]

\* df.drop(columns=[name])
DropColumn(df, name) ==
    LET Keep(c) == c.name # name IN SelectSeq(df, Keep)

ProblemThreshold == 20

\* _detect_problem_type with the threshold itself counted as many values
DetectProblemType_AtLeast(target_series) ==
    IF IsNumericDtype(target_series.dtype)
    THEN IF NUnique(target_series) >= ProblemThreshold THEN "regression"
         ELSE "classification"
    ELSE "classification"

\* MLPrepAgent._detect_problem_type
DetectProblemType(target_series) ==
    IF IsNumericDtype(target_series.dtype)
    THEN IF NUnique(target_series) > ProblemThreshold THEN "regression"
         ELSE "classification"
    ELSE "classification"

OneHotLimit == 10

\* The name of a prepared column is << c >> for column c itself and
\* << c, v >> for the indicator of the v-th value of column c (c_v).
\*
\* pd.get_dummies(df[col], prefix=col, drop_first=True): one indicator column
\* for every distinct value but the first; indicatorDtype is the dtype the
\* installed pandas gives them (bool, or uint8 before pandas 2).
Dummies(col, indicatorDtype) ==
    [i \in 1..(NUnique(col) - 1) |->
        [name |-> << col.name, i + 1 >>, dtype |-> indicatorDtype,
         hist |-> << RowsOf(col) - col.hist[i + 1], col.hist[i + 1] >>,
         nulls |-> 0, from |-> col.name, encoding |-> "onehot"]]

\* LabelEncoder().fit_transform(df[col].astype(str)): integer codes under the
\* column's own name; a null becomes the text "nan", a value of its own.
LabelEncoded(col) ==
    [name |-> << col.name >>, dtype |-> "number",
     hist |-> IF col.nulls > 0 THEN Append(col.hist, col.nulls) ELSE col.hist,
     nulls |-> 0, from |-> col.name, encoding |-> "label"]

Kept(col) ==
    [name |-> << col.name >>, dtype |-> col.dtype, hist |-> col.hist,
     nulls |-> col.nulls, from |-> col.name, encoding |-> "none"]

\* EncodeColumn without the second test of the distinct count
EncodeColumn_NoLimit(acc, name, df, strategy, indicatorDtype) ==
    LET col          == ColumnOf(df, name)
        unique_count == NUnique(col)
        use_onehot   == IF strategy = "auto" THEN unique_count <= OneHotLimit
                        ELSE strategy = "onehot"
        dummies      == Dummies(col, indicatorDtype)
        Others(c)    == c.name # << name >>
    IN  IF use_onehot
        THEN [cols |-> SelectSeq(acc.cols, Others) \o dummies,
              encoded_cols |-> acc.encoded_cols
                                 \o [i \in 1..Len(dummies) |-> dummies[i].name]]
        ELSE [cols |-> [i \in 1..Len(acc.cols) |->
                           IF acc.cols[i].name = << name >> THEN LabelEncoded(col)
                           ELSE acc.cols[i]],
              encoded_cols |-> Append(acc.encoded_cols, << name >>)]

\* one turn of the loop of _encode_categorical, for column name
EncodeColumn(acc, name, df, strategy, indicatorDtype) ==
    LET col          == ColumnOf(df, name)
        unique_count == NUnique(col)
        use_onehot   == IF strategy = "auto" THEN unique_count <= OneHotLimit
                        ELSE strategy = "onehot"
        dummies      == Dummies(col, indicatorDtype)
        Others(c)    == c.name # << name >>
    IN  IF use_onehot /\ unique_count <= OneHotLimit
        THEN [cols |-> SelectSeq(acc.cols, Others) \o dummies,
              encoded_cols |-> acc.encoded_cols
                                 \o [i \in 1..Len(dummies) |-> dummies[i].name]]
        ELSE [cols |-> [i \in 1..Len(acc.cols) |->
                           IF acc.cols[i].name = << name >> THEN LabelEncoded(col)
                           ELSE acc.cols[i]],
              encoded_cols |-> Append(acc.encoded_cols, << name >>)]

RECURSIVE EncodeLoop(_, _, _, _, _)
EncodeLoop(acc, names, df, strategy, indicatorDtype) ==
    IF names = << >> THEN acc
    ELSE EncodeLoop(EncodeColumn(acc, Head(names), df, strategy, indicatorDtype),
                    Tail(names), df, strategy, indicatorDtype)

\* MLPrepAgent._encode_categorical
EncodeCategorical(df, strategy, indicatorDtype) ==
    LET Categorical(c) == ~IsNumber(c.dtype)
        categorical    == SelectSeq(df, Categorical)
    IN  EncodeLoop([cols |-> [i \in 1..Len(df) |-> Kept(df[i])],
                    encoded_cols |-> << >>],
                   [i \in 1..Len(categorical) |-> categorical[i].name],
                   df, strategy, indicatorDtype)

\* MLPrepAgent._scale_numerical: the names of the columns it scales
ScaleNumerical(cols) ==
    LET Numerical(c) == IsNumber(c.dtype)
        numerical    == SelectSeq(cols, Numerical)
    IN  [i \in 1..Len(numerical) |-> numerical[i].name]

(***************************************************************************)
(* sklearn.model_selection.train_test_split as prepare_for_ml calls it: a  *)
(* test fraction, no train size, shuffling, and stratify either None or    *)
(* the target.  A fraction is a pair << numerator, denominator >>.  What   *)
(* the model keeps of a partition is its size and, for a stratified split, *)
(* how many rows of every class it got; which rows it got depends on the   *)
(* seeded shuffle only.                                                    *)
(***************************************************************************)
\* ceil(test_size * n_samples)
NTest(n, test_size) == (n * test_size[1] + test_size[2] - 1) \div test_size[2]

\* _approximate_mode: every class gets the whole part of its proportional
\* share of the draws, and the draws left over go to the classes with the
\* largest fractional parts, ties broken by the random generator.
ApproximateMode(class_counts, n_draws) ==
    LET total    == Sum(class_counts)
        classes  == 1..Len(class_counts)
        floored  == [i \in classes |-> (class_counts[i] * n_draws) \div total]
        remains  == [i \in classes |-> (class_counts[i] * n_draws) % total]
        need     == n_draws - Sum(floored)
        Above(v) == { i \in classes : remains[i] > v }
        At(v)    == { i \in classes : remains[i] = v }
        \* the value at which the loop over the sorted remainders stops
        cut      == CHOOSE v \in { remains[i] : i \in classes } :
                        /\ Cardinality(Above(v)) < need
                        /\ need <= Cardinality(Above(v)) + Cardinality(At(v))
        add_now  == need - Cardinality(Above(cut))
        \* rng.choice(inds, size=add_now, replace=False)
        choices  == IF add_now = Cardinality(At(cut)) THEN { At(cut) }
                    ELSE { T \in SUBSET At(cut) : Cardinality(T) = add_now }
    IN  IF need = 0 THEN { floored }
        ELSE { [i \in classes |->
                   floored[i] + IF i \in Above(cut) \cup T THEN 1 ELSE 0] :
               T \in choices }

NoSplit == [n_train |-> 0, n_test |-> 0, stratified |-> FALSE,
            train |-> << >>, test |-> << >>]

SplitError(msg) == [ok |-> FALSE, msg |-> msg, split |-> NoSplit]

\* The outcomes train_test_split can have on n rows; class_counts are the
\* numbers of rows of the classes of the stratify argument, hasNaN whether
\* that argument holds a NaN.
TrainTestSplit(n, test_size, stratify, class_counts, hasNaN) ==
    LET n_test  == NTest(n, test_size)
        n_train == n - n_test
    IN  IF n_train = 0
        THEN { SplitError("the resulting train set will be empty") }
        ELSE IF ~stratify
        THEN { [ok |-> TRUE, msg |-> "",
                split |-> [NoSplit EXCEPT !.n_train = n_train, !.n_test = n_test]] }
        ELSE IF hasNaN
        THEN { SplitError("Input y contains NaN") }
        ELSE IF \E i \in 1..Len(class_counts) : class_counts[i] < 2
        THEN { SplitError("The least populated class in y has only 1 member") }
        ELSE IF n_train < Len(class_counts)
        THEN { SplitError("The train_size should be greater or equal to the number of classes") }
        ELSE IF n_test < Len(class_counts)
        THEN { SplitError("The test_size should be greater or equal to the number of classes") }
        ELSE { [ok |-> TRUE, msg |-> "",
                split |-> [n_train |-> n_train, n_test |-> n_test,
                           stratified |-> TRUE, train |-> n_i,
                           test |-> [i \in 1..Len(class_counts) |->
                                        class_counts[i] - n_i[i]]]] :
               n_i \in ApproximateMode(class_counts, n_train) }

(***************************************************************************)
(* prepare_for_ml.  The completion client's answer carries the "warnings"  *)
(* list of the JSON document its text holds.                               *)
(***************************************************************************)
MlApiError == [status |-> "error", text |-> << >>, warnings |-> << >>]

MlReply(text, warnings) == [status |-> "ok", text |-> text, warnings |-> warnings]

NoDistribution == [present |-> FALSE, counts |-> << >>]

\* {str(k): int(v) for k, v in y_train.value_counts().to_dict().items()}:
\* the classes that have rows in the train partition, with their counts
ClassDistribution(train) ==
    [present |-> TRUE,
     counts |-> [i \in { j \in 1..Len(train) : train[j] > 0 } |-> train[i]]]

MlFailure(msg) ==
    [success |-> FALSE, keys |-> { "success", "error" }, error |-> msg,
     problem_type |-> "", X_columns |-> << >>, encoded_columns |-> << >>,
     scaled_columns |-> << >>, target_encoded |-> FALSE,
     class_distribution |-> NoDistribution, warnings |-> << >>,
     split |-> NoSplit]

MlSuccessKeys ==
    { "success", "X_train", "X_test", "y_train", "y_test", "problem_type",
      "encoded_columns", "scaled_columns", "target_encoded",
      "class_distribution", "recommended_algorithms", "warnings",
      "best_practices" }

ImbalanceRatio == 3

ImbalanceWarning == "Class imbalance detected"

MaxOf(f) == CHOOSE m \in { f[i] : i \in DOMAIN f } : \A i \in DOMAIN f : f[i] <= m

MinCount(f) == CHOOSE m \in { f[i] : i \in DOMAIN f } : \A i \in DOMAIN f : m <= f[i]

\* the imbalance check with the ratio itself counted as imbalanced
Warnings_AtLeast(reply, problem_type, class_distribution) ==
    IF /\ problem_type = "classification"
       /\ class_distribution.present
       /\ DOMAIN class_distribution.counts # { }
       /\ MaxOf(class_distribution.counts)
              >= ImbalanceRatio * MinCount(class_distribution.counts)
    THEN Append(reply.warnings, ImbalanceWarning)
    ELSE reply.warnings

\* prepare_for_ml lines 275-280: max_class / min_class > 3 on whole numbers
Warnings(reply, problem_type, class_distribution) ==
    IF /\ problem_type = "classification"
       /\ class_distribution.present
       /\ DOMAIN class_distribution.counts # { }
       /\ MaxOf(class_distribution.counts)
              > ImbalanceRatio * MinCount(class_distribution.counts)
    THEN Append(reply.warnings, ImbalanceWarning)
    ELSE reply.warnings

\* stratify = y if problem_type == "classification" else None
Stratify_Never(problem_type) == FALSE

Stratify(problem_type) == problem_type = "classification"

\* prepare_for_ml from the split on: the completion call and the result;
\* detected is the problem type it logged
AfterSplit(req, problem_type, enc, target_encoded, scaled_cols, s) ==
    IF ~s.ok
    THEN [result |-> MlFailure(s.msg), llmCalls |-> 0, detected |-> problem_type]
    ELSE IF req.reply.status = "error"
    THEN [result |-> MlFailure("completion failed"), llmCalls |-> 1,
          detected |-> problem_type]
    ELSE IF ~ParseJsonResponse(req.reply.text).ok
    THEN [result |-> MlFailure("Failed to parse JSON response"), llmCalls |-> 1,
          detected |-> problem_type]
    ELSE LET class_distribution ==
                 IF problem_type = "classification"
                 THEN ClassDistribution(s.split.train)
                 ELSE NoDistribution
         IN  [result |->
                  [success |-> TRUE, keys |-> MlSuccessKeys, error |-> "",
                   problem_type |-> problem_type, X_columns |-> enc.cols,
                   encoded_columns |-> enc.encoded_cols,
                   scaled_columns |-> scaled_cols,
                   target_encoded |-> target_encoded,
                   class_distribution |-> class_distribution,
                   warnings |-> Warnings(req.reply, problem_type, class_distribution),
                   split |-> s.split],
              llmCalls |-> 1, detected |-> problem_type]

\* prepare_for_ml with the completion call made before the target is looked up
PrepareForMl_AskFirst(req) ==
    IF req.target_column \notin ColumnNames(req.df)
    THEN { [result |-> MlFailure("Target column not found in dataset"),
            llmCalls |-> 1, detected |-> ""] }
    ELSE LET y0             == ColumnOf(req.df, req.target_column)
             problem_type   == DetectProblemType(y0)
             X              == DropColumn(req.df, req.target_column)
             enc            == EncodeCategorical(X, req.encoding_strategy,
                                                 req.indicatorDtype)
             target_encoded == problem_type = "classification"
                                   /\ ~IsNumericDtype(y0.dtype)
             y              == IF target_encoded THEN LabelEncoded(y0) ELSE y0
             scaled_cols    == ScaleNumerical(enc.cols)
         IN  { AfterSplit(req, problem_type, enc, target_encoded, scaled_cols, s) :
               s \in TrainTestSplit(RowsOf(y0), req.test_size,
                                    Stratify(problem_type), y.hist, y.nulls > 0) }

\* MLPrepAgent.prepare_for_ml: the results the call can have
PrepareForMl(req) ==
    IF req.target_column \notin ColumnNames(req.df)
    THEN { [result |-> MlFailure("Target column not found in dataset"),
            llmCalls |-> 0, detected |-> ""] }
    ELSE LET y0             == ColumnOf(req.df, req.target_column)
             problem_type   == DetectProblemType(y0)
             X              == DropColumn(req.df, req.target_column)
             enc            == EncodeCategorical(X, req.encoding_strategy,
                                                 req.indicatorDtype)
             target_encoded == problem_type = "classification"
                                   /\ ~IsNumericDtype(y0.dtype)
             y              == IF target_encoded THEN LabelEncoded(y0) ELSE y0
             scaled_cols    == ScaleNumerical(enc.cols)
         IN  { AfterSplit(req, problem_type, enc, target_encoded, scaled_cols, s) :
               s \in TrainTestSplit(RowsOf(y0), req.test_size,
                                    Stratify(problem_type), y.hist, y.nulls > 0) }

(***************************************************************************)
(* The tables prepare_for_ml makes and the ones it assigns into.  A heap   *)
(* is the sequence of the tables that exist, the caller's table first; a   *)
(* frame is a heap and the position of one table in it.                    *)
(***************************************************************************)
NewFrame(heap, value) == [heap |-> Append(heap, value), ref |-> Len(heap) + 1]

\* df.drop(columns=[name], inplace=True): the table itself loses the column
DfDrop_InPlace(heap, ref, name) ==
    [heap |-> [heap EXCEPT ![ref] = DropColumn(heap[ref], name)], ref |-> ref]

\* df.drop(columns=[name]): a new table
DfDrop(heap, ref, name) == NewFrame(heap, DropColumn(heap[ref], name))

\* df.copy()
DfCopy(heap, ref) == NewFrame(heap, heap[ref])

\* df[col] = values: the table itself changes
SetItem(heap, ref, value) ==
    [heap |-> [heap EXCEPT ![ref] = value], ref |-> ref]

\* The loop of _encode_categorical on df_encoded (frame at): label encoding
\* assigns into it, one-hot encoding rebinds it to the table pd.concat makes.
RECURSIVE EncodeFramesLoop(_, _, _, _, _, _)
EncodeFramesLoop(at, acc, names, df, strategy, indicatorDtype) ==
    IF names = << >> THEN at
    ELSE LET next  == EncodeColumn(acc, Head(names), df, strategy, indicatorDtype)
             label == next.encoded_cols = Append(acc.encoded_cols, << Head(names) >>)
         IN  EncodeFramesLoop(IF label THEN SetItem(at.heap, at.ref, next.cols)
                              ELSE NewFrame(at.heap, next.cols),
                              next, Tail(names), df, strategy, indicatorDtype)

\* _encode_categorical: the table it returns is its argument when there is no
\* categorical column, else a copy it worked on
EncodeFrames(heap, ref, strategy, indicatorDtype) ==
    LET df             == heap[ref]
        Categorical(c) == ~IsNumber(c.dtype)
        categorical    == SelectSeq(df, Categorical)
    IN  IF categorical = << >> THEN [heap |-> heap, ref |-> ref]
        ELSE EncodeFramesLoop(DfCopy(heap, ref),
                              [cols |-> [i \in 1..Len(df) |-> Kept(df[i])],
                               encoded_cols |-> << >>],
                              [i \in 1..Len(categorical) |-> categorical[i].name],
                              df, strategy, indicatorDtype)

ScalingStrategies == { "standard", "minmax", "robust", "none" }

\* _scale_numerical: the table it returns is its argument when there is no
\* numeric column, else a copy whose numeric columns it assigned; a strategy
\* it does not know is scaled as "standard"
ScaleFrames(at, cols, strategy) ==
    LET scaler == IF strategy \in { "minmax", "robust" } THEN strategy ELSE "standard"
        df_scaled == DfCopy(at.heap, at.ref)
    IN  IF ScaleNumerical(cols) = << >> THEN at
        ELSE SetItem(df_scaled.heap, df_scaled.ref,
                     [i \in 1..Len(cols) |->
                         IF IsNumber(cols[i].dtype)
                         THEN [cols[i] EXCEPT !.encoding = scaler]
                         ELSE cols[i]])

\* prepare_for_ml lines 223-242: the tables there are when the features are
\* encoded and scaled; whatever the call does afterwards makes new ones
PrepareFrames(req, scaling_strategy) ==
    IF req.target_column \notin ColumnNames(req.df) THEN << req.df >>
    ELSE LET X   == DfDrop(<< req.df >>, 1, req.target_column)
             enc == EncodeCategorical(X.heap[X.ref], req.encoding_strategy,
                                      req.indicatorDtype)
         IN  ScaleFrames(EncodeFrames(X.heap, X.ref, req.encoding_strategy,
                                      req.indicatorDtype),
                         enc.cols, scaling_strategy).heap

(***************************************************************************)
(* SpecPrep: one prepare_for_ml call on a table read from a session file   *)
(* (number, bool and object columns), for every request of two families:   *)
(* every target column with fixed features, and every categorical feature  *)
(* with a fixed target.                                                    *)
(***************************************************************************)
Uniform(k, c) == [i \in 1..k |-> c]

\* targets of up to three classes of up to MaxCount rows each
ShortHists == { h \in SeqsUpTo(1..MaxCount, 3) : h # << >> }

\* targets of the documented examples
LargeHists == { << 400, 120 >>, << 400, 160 >>, << 80, 20 >>, << 12, 4 >> }

\* targets with about ProblemThreshold distinct values, each 1 or 4 times
WideHists ==
    { Uniform(k, c) : k \in (ProblemThreshold - 1)..MaxDistinct, c \in { 1, 4 } }

Targets ==
    { Column("y", d, h, u) : d \in { "number", "object" },
                             h \in ShortHists \cup LargeHists \cup WideHists,
                             u \in { 0, 2 } }
        \cup { Column("y", "bool", h, 0) : h \in { g \in ShortHists : Len(g) <= 2 } }

NumFeature(n) == Column("x", "number", << n >>, 0)

BoolFeature(n) == Column("flag", "bool", << 1, n - 1 >>, 0)

\* an object column of n rows, u of them null, with k distinct values
CatFeature(name, n, k, u) ==
    Column(name, "object", [i \in 1..k |-> IF i < k THEN 1 ELSE n - u - (k - 1)], u)

TestSizes == { << 1, 5 >>, << 1, 4 >> }

MlReplies ==
    { MlApiError, MlReply(<< "X" >>, << >>) }
        \cup { MlReply(<< "A" >>, w) : w \in { << >>, << "w1" >>, << "w1", "w2" >> } }

Request(df, target_column, test_size, encoding_strategy, indicatorDtype, reply) ==
    [df |-> df, target_column |-> target_column, test_size |-> test_size,
     encoding_strategy |-> encoding_strategy, indicatorDtype |-> indicatorDtype,
     reply |-> reply]

TargetRequests ==
    { Request(<< NumFeature(RowsOf(y)), CatFeature("c", RowsOf(y), 1, 0), y >>,
              t, ts, "auto", "bool", r) :
      y \in Targets, t \in { "y" }, ts \in TestSizes, r \in MlReplies }
        \cup { Request(<< NumFeature(RowsOf(y)), y >>, "z", << 1, 5 >>, "auto", "bool", r) :
               y \in { Column("y", "number", << 2, 2 >>, 0) }, r \in MlReplies }

FeatureTables ==
    LET n == 2 * (MaxCats + 1)
        y == Column("y", "number", << MaxCats + 1, MaxCats + 1 >>, 0)
    IN  { << NumFeature(n), y >>, << BoolFeature(n), y >> }
            \cup { << CatFeature("c", n, k, u), y >> : k \in 1..MaxCats, u \in { 0, 1 } }
            \cup { << y, CatFeature("c", n, k, u), NumFeature(n),
                      CatFeature("d", n, 3, 0), BoolFeature(n) >> :
                   k \in 1..MaxCats, u \in { 0, 1 } }

FeatureRequests ==
    { Request(df, "y", << 1, 5 >>, e, d, MlReply(<< "A" >>, << >>)) :
      df \in FeatureTables, e \in { "auto", "onehot", "label", "ordinal" },
      d \in { "bool", "number" } }

InitPrep ==
    /\ ml \in { [phase |-> "pending", req |-> r, result |-> MlFailure(""),
                 llmCalls |-> 0, detected |-> "", scaling_strategy |-> "",
                 frames |-> << r.df >>] : r \in TargetRequests \cup FeatureRequests }
    /\ schema = NoSchema
    /\ IdleMore
    /\ IdleExec
    /\ IdleParse
    /\ chat = NoChat

PrepareForMlCall ==
    /\ ml.phase = "pending"
    /\ \E o \in PrepareForMl(ml.req), scaling_strategy \in ScalingStrategies :
           ml' = [ml EXCEPT !.phase = "done", !.result = o.result,
                            !.llmCalls = o.llmCalls, !.detected = o.detected,
                            !.scaling_strategy = scaling_strategy,
                            !.frames = PrepareFrames(ml.req, scaling_strategy)]
    /\ UNCHANGED << figures, calls, last, response, parsed, logged, chat, schema, more >>

NextPrep == PrepareForMlCall

SpecPrep == InitPrep /\ [][NextPrep]_vars

\* the call is over and the table had the target column
PrepRan ==
    /\ ml.phase = "done"
    /\ ml.req.target_column \in ColumnNames(ml.req.df)

TargetOfRequest == ColumnOf(ml.req.df, ml.req.target_column)

\* C12: the problem type is regression for a numeric target with more than
\* 20 distinct values (21 or more), and classification for a numeric target
\* with 20 or fewer and for every non-numeric target; a successful result
\* reports the type detected.
C12_ProblemTypeThreshold ==
    PrepRan =>
        /\ ml.detected =
               IF TargetOfRequest.dtype \in { "number", "bool" }
                      /\ Len(TargetOfRequest.hist) >= 21
               THEN "regression" ELSE "classification"
        /\ ml.result.success => ml.result.problem_type = ml.detected

\* C12 witness: a numeric target with exactly 20 distinct values was prepared
\* successfully as a classification problem.
C12_Witness ==
    /\ PrepRan
    /\ TargetOfRequest.dtype = "number"
    /\ Len(TargetOfRequest.hist) = 20
    /\ ml.result.success
    /\ ml.result.problem_type = "classification"

\* C13: when the table has no column of the target's name, prepare_for_ml
\* returns a failure with an error message, has made no completion call, and
\* its result holds none of X_train, X_test, y_train and y_test.
C13_MissingTargetFailsLocally ==
    (ml.phase = "done" /\ ml.req.target_column \notin ColumnNames(ml.req.df))
        => /\ ~ml.result.success
           /\ "error" \in ml.result.keys
           /\ ml.result.error # ""
           /\ ml.llmCalls = 0
           /\ ml.result.keys \cap { "X_train", "X_test", "y_train", "y_test" } = { }

\* C13 witness: the target column was missing, the completion client would
\* have answered, and the call failed without asking it.
C13_Witness ==
    /\ ml.phase = "done"
    /\ ml.req.target_column = "z"
    /\ ml.req.reply.status = "ok"
    /\ ~ml.result.success
    /\ ml.llmCalls = 0

\* the columns of the prepared features that come from column name
ColumnsFrom(name) ==
    { i \in 1..Len(ml.result.X_columns) : ml.result.X_columns[i].from = name }

InEncodedColumns(name) ==
    \E i \in 1..Len(ml.result.encoded_columns) : ml.result.encoded_columns[i] = name

\* C14: in a successful preparation, a non-numeric feature column with k
\* distinct values is replaced by k-1 indicator columns, one for every value
\* but the first, exactly when k <= 10 and the strategy is auto or onehot;
\* otherwise it keeps its name and holds integer codes; the indicator names,
\* or the column's name, are in encoded_columns, and a numeric column is
\* left as it is and is not in encoded_columns.
C14_EncodingRule ==
    (PrepRan /\ ml.result.success) =>
        LET X == DropColumn(ml.req.df, ml.req.target_column)
            out == ml.result.X_columns
        IN  \A p \in 1..Len(X) :
                LET col == X[p]
                    k   == Len(col.hist)
                IN  IF col.dtype = "number"
                    THEN /\ Cardinality(ColumnsFrom(col.name)) = 1
                         /\ \A i \in ColumnsFrom(col.name) :
                                /\ out[i].name = << col.name >>
                                /\ out[i].encoding = "none"
                         /\ ~InEncodedColumns(<< col.name >>)
                    ELSE IF k <= 10 /\ ml.req.encoding_strategy \in { "auto", "onehot" }
                    THEN /\ Cardinality(ColumnsFrom(col.name)) = k - 1
                         /\ { out[i].name : i \in ColumnsFrom(col.name) }
                                = { << col.name, v >> : v \in 2..k }
                         /\ \A i \in ColumnsFrom(col.name) :
                                /\ out[i].encoding = "onehot"
                                /\ InEncodedColumns(out[i].name)
                         /\ \A i \in 1..Len(out) : out[i].name # << col.name >>
                         /\ ~InEncodedColumns(<< col.name >>)
                    ELSE /\ Cardinality(ColumnsFrom(col.name)) = 1
                         /\ \A i \in ColumnsFrom(col.name) :
                                /\ out[i].name = << col.name >>
                                /\ out[i].encoding = "label"
                                /\ out[i].dtype = "number"
                         /\ InEncodedColumns(<< col.name >>)

\* C14 witness: under strategy onehot a column of 11 distinct values was label
\* encoded and a column of 3 distinct values became 2 indicator columns.
C14_Witness ==
    /\ PrepRan
    /\ ml.result.success
    /\ ml.req.encoding_strategy = "onehot"
    /\ "c" \in ColumnNames(ml.req.df)
    /\ "d" \in ColumnNames(ml.req.df)
    /\ Len(ColumnOf(ml.req.df, "c").hist) = 11
    /\ InEncodedColumns(<< "c" >>)
    /\ Cardinality(ColumnsFrom("d")) = 2

\* the numbers of rows of the target's classes as the split sees them: the
\* distinct values, and for a target that was label-encoded its nulls as one
\* more class
ClassesOfTarget ==
    IF TargetOfRequest.dtype = "object" /\ TargetOfRequest.nulls > 0
    THEN Append(TargetOfRequest.hist, TargetOfRequest.nulls)
    ELSE TargetOfRequest.hist

\* the train partition has two classes, one more than 3 times the other
TrainImbalanced ==
    \E i, j \in 1..Len(ml.result.split.train) :
        /\ ml.result.split.train[i] > 0
        /\ ml.result.split.train[j] > 0
        /\ ml.result.split.train[i] > 3 * ml.result.split.train[j]

\* C15: a successful preparation returns the model's warnings, all of them
\* and in their order, followed by one imbalance warning exactly when the
\* problem is classification and the largest class of the train partition has
\* more than 3 times the rows of its smallest; for regression it returns the
\* model's warnings alone.
C15_ImbalanceWarning ==
    (PrepRan /\ ml.result.success) =>
        /\ ml.result.problem_type = "classification" =>
               ml.result.warnings =
                   IF TrainImbalanced
                   THEN ml.req.reply.warnings \o << ImbalanceWarning >>
                   ELSE ml.req.reply.warnings
        /\ ml.result.problem_type = "regression" =>
               ml.result.warnings = ml.req.reply.warnings

\* C15 witness: a train partition of 300 and 90 rows, and the imbalance
\* warning after the model's two.
C15_Witness ==
    /\ PrepRan
    /\ ml.result.success
    /\ ml.result.split.train = << 300, 90 >>
    /\ ml.req.reply.warnings = << "w1", "w2" >>
    /\ ml.result.warnings = << "w1", "w2", ImbalanceWarning >>

Distance(a, b) == IF a < b THEN b - a ELSE a - b

\* C16: for a classification problem the split is stratified by the target:
\* every row is in one partition, and in each partition the number of rows
\* of a class is less than one row away from the class's share of the table
\* times the partition's size; for a regression problem the split is not
\* stratified.
C16_StratifiedSplit ==
    (PrepRan /\ ml.result.success) =>
        LET sp == ml.result.split
            n  == sp.n_train + sp.n_test
        IN  /\ n = RowsOf(TargetOfRequest)
            /\ ml.result.problem_type = "regression" => ~sp.stratified
            /\ ml.result.problem_type = "classification" =>
                   /\ sp.stratified
                   /\ Len(sp.train) = Len(ClassesOfTarget)
                   /\ Len(sp.test) = Len(ClassesOfTarget)
                   /\ Sum(sp.train) = sp.n_train
                   /\ Sum(sp.test) = sp.n_test
                   /\ \A i \in 1..Len(ClassesOfTarget) :
                          /\ sp.train[i] + sp.test[i] = ClassesOfTarget[i]
                          /\ Distance(sp.train[i] * n, ClassesOfTarget[i] * sp.n_train) < n
                          /\ Distance(sp.test[i] * n, ClassesOfTarget[i] * sp.n_test) < n

\* C16 witness: classes of 80 and 20 rows split with test fraction 0.25 into
\* 60 and 15 rows for training and 20 and 5 rows for testing.
C16_Witness ==
    /\ PrepRan
    /\ ml.result.success
    /\ TargetOfRequest.hist = << 80, 20 >>
    /\ ml.req.test_size = << 1, 4 >>
    /\ ml.result.split.train = << 60, 15 >>
    /\ ml.result.split.test = << 20, 5 >>

\* C23: prepare_for_ml leaves the table it is given as it was, for every
\* encoding and scaling strategy, with or without categorical or numeric
\* columns, whether it succeeds or fails.
C23_CallerTableUnchanged ==
    ml.phase = "done" => ml.frames[1] = ml.req.df

\* a call that label-encoded a feature in place of a copy and scaled another
C23_Witness ==
    /\ PrepRan
    /\ ml.result.success
    /\ ml.frames[1] = ml.req.df
    /\ Len(ml.frames) >= 4
    /\ \E i \in ColumnsFrom("c") : ml.result.X_columns[i].encoding = "label"
    /\ ml.result.scaled_columns # << >>

(***************************************************************************)
(* Schema analysis (agents/schema_analyzer.py).  Columns are as above; the *)
(* dtypes are number, bool, datetime, category, object and timedelta (a    *)
(* dtype none of the tests of _analyze_column_basic knows).                *)
(***************************************************************************)
\* a ratio is a pair << numerator, denominator >>
CategoricalRatio == << 1, 20 >>     \* 0.05

TextRatio == << 1, 2 >>             \* 0.5

\* series.nunique() / len(series) < ratio, for a series with rows
RatioBelow(col, ratio) == NUnique(col) * ratio[2] < ratio[1] * RowsOf(col)

\* series.isna().sum()
NullCount_NotCounted(col) == 0

NullCount(col) == col.nulls

\* _analyze_column_basic lines 41-57: the DataType of a column, or
\* ZeroDivisionError when a ratio of a column without rows is taken.
DataTypeOf(col) ==
    IF IsNumericDtype(col.dtype) THEN "numeric"
    ELSE IF col.dtype = "datetime" THEN "datetime"
    ELSE IF col.dtype = "bool" THEN "boolean"
    ELSE IF col.dtype = "category" THEN "categorical"
    ELSE IF RowsOf(col) = 0 THEN "ZeroDivisionError"
    ELSE IF RatioBelow(col, CategoricalRatio) THEN "categorical"
    ELSE IF col.dtype = "object"
    THEN IF RatioBelow(col, TextRatio) THEN "categorical" ELSE "text"
    ELSE "unknown"

\* the primary-key test without the test that the column has rows
IsPrimaryKey_EmptyTable(col) ==
    /\ NUnique(col) = RowsOf(col)
    /\ NullCount(col) = 0

\* _analyze_column_basic lines 67-72
IsPrimaryKey(col) ==
    /\ NUnique(col) = RowsOf(col)
    /\ NullCount(col) = 0
    /\ RowsOf(col) > 0

\* SchemaAnalyzerAgent._analyze_column_basic
AnalyzeColumnBasic(col) ==
    [name |-> col.name, data_type |-> DataTypeOf(col),
     null_count |-> NullCount(col), unique_count |-> NUnique(col),
     is_primary_key |-> IsPrimaryKey(col), total_rows |-> RowsOf(col)]

\* The completion client's answer to a schema request: the column_insights
\* and the quality_score of the JSON document its text holds.  An insight
\* names a column and may carry any key, a primary-key flag among them.
SchemaReply(text, insights, score) ==
    [status |-> "ok", text |-> text, column_insights |-> insights,
     quality_score |-> score]

SchemaApiError ==
    [status |-> "error", text |-> << >>, column_insights |-> << >>,
     quality_score |-> 50]

Insight(column, meaning, is_primary_key) ==
    [column |-> column, meaning |-> meaning, is_primary_key |-> is_primary_key]

NoInsight == Insight("", "Unknown", FALSE)

\* next((ci for ci in column_insights if ci["column"] == stat["name"]), {})
InsightFor(reply, name) ==
    LET at == { i \in 1..Len(reply.column_insights) :
                reply.column_insights[i].column = name }
    IN  IF at = { } THEN NoInsight ELSE reply.column_insights[Min(at)]

SchemaRaised(kind) == [returned |-> FALSE, raised |-> kind, columns |-> << >>]

\* ColumnInfo built with the primary-key flag of the model's insight
ColumnInfo_TrustModel(stat, ai_insight) ==
    [name |-> stat.name, data_type |-> stat.data_type,
     inferred_meaning |-> ai_insight.meaning, null_count |-> stat.null_count,
     unique_count |-> stat.unique_count,
     is_primary_key |-> IF ai_insight = NoInsight THEN stat.is_primary_key
                        ELSE ai_insight.is_primary_key]

\* ColumnInfo(...) of _process_request lines 168-179
ColumnInfo(stat, ai_insight) ==
    [name |-> stat.name, data_type |-> stat.data_type,
     inferred_meaning |-> ai_insight.meaning, null_count |-> stat.null_count,
     unique_count |-> stat.unique_count, is_primary_key |-> stat.is_primary_key]

\* SchemaAnalyzerAgent._process_request
SchemaProcessRequest(reply, column_stats) ==
    IF reply.status = "error" THEN SchemaRaised("APIError")
    ELSE IF ~ParseJsonResponse(reply.text).ok THEN SchemaRaised("ValueError")
    ELSE IF reply.quality_score < 0 \/ reply.quality_score > 100
    THEN SchemaRaised("ValidationError")
    ELSE [returned |-> TRUE, raised |-> "",
          columns |-> [i \in 1..Len(column_stats) |->
                          ColumnInfo(column_stats[i],
                                     InsightFor(reply, column_stats[i].name))]]

\* SchemaAnalyzerAgent.execute
SchemaExecute(dataframe, reply) ==
    LET column_stats == [i \in 1..Len(dataframe) |-> AnalyzeColumnBasic(dataframe[i])]
    IN  IF \E i \in 1..Len(dataframe) :
               column_stats[i].data_type = "ZeroDivisionError"
        THEN [out |-> SchemaRaised("ZeroDivisionError"), llmCalls |-> 0]
        ELSE [out |-> SchemaProcessRequest(reply, column_stats), llmCalls |-> 1]

(***************************************************************************)
(* SpecSchema: up to MaxAnalyses schema analyses of one table, each with   *)
(* any answer of the completion client.  The tables are those of one       *)
(* column of 0, 1, 2, SmallRows or 100 rows, and the documented table of   *)
(* 100 rows with the columns id, age and city.                             *)
(***************************************************************************)
SchemaDtypes == { "number", "bool", "datetime", "category", "object", "timedelta" }

\* a column of n rows, u of them null, with k distinct values
ColumnWith(name, dtype, n, k, u) ==
    Column(name, dtype, [i \in 1..k |-> IF i < k THEN 1 ELSE n - u - (k - 1)], u)

Sizes == { 0, 1, 2, SmallRows, 100 }

Distincts(n) ==
    IF n <= SmallRows THEN 0..n ELSE { 1, 4, 5, 6, 8, 49, 50, 51, 95, n }

\* dtype, rows, distinct values and nulls that make a column
Shapes ==
    { q \in SchemaDtypes \X Sizes \X (UNION { Distincts(n) : n \in Sizes })
               \X ({ 0, 1, 5 } \cup Sizes) :
        /\ q[3] \in Distincts(q[2])
        /\ q[4] <= q[2]
        /\ \/ q[3] = 0 /\ q[4] = q[2]
           \/ 1 <= q[3] /\ q[3] <= q[2] - q[4]
        /\ q[1] = "bool" => (q[4] = 0 /\ q[3] <= 2) }

ExampleTable ==
    << ColumnWith("id", "number", 100, 100, 0),
       ColumnWith("age", "number", 100, 40, 5),
       ColumnWith("city", "object", 100, 8, 0) >>

SchemaTables ==
    { << ColumnWith("c", q[1], q[2], q[3], q[4]) >> : q \in Shapes }
        \cup { ExampleTable }

SchemaReplies ==
    { SchemaApiError,
      SchemaReply(<< "X" >>, << >>, 50),
      SchemaReply(<< "A" >>, << >>, 50),
      SchemaReply(<< "A" >>, << >>, 150),
      SchemaReply(<< "A" >>, << Insight("c", "key", TRUE), Insight("id", "number", FALSE),
                               Insight("city", "key", TRUE) >>, 50),
      SchemaReply(<< "A" >>, << Insight("other", "x", TRUE), Insight("c", "label", FALSE),
                               Insight("id", "key", TRUE) >>, 90) }

InitSchema ==
    /\ schema \in { [phase |-> "loaded", table |-> t, runs |-> << >>] :
                    t \in SchemaTables }
    /\ ml = NoMl
    /\ IdleMore
    /\ IdleExec
    /\ IdleParse
    /\ chat = NoChat

\* one request to the analyze endpoint
Analyze ==
    \E reply \in SchemaReplies :
        LET got == SchemaExecute(schema.table, reply)
        IN  /\ Len(schema.runs) < MaxAnalyses
            /\ schema' = [schema EXCEPT
                            !.runs = Append(@, [reply |-> reply, out |-> got.out,
                                                llmCalls |-> got.llmCalls])]
            /\ UNCHANGED << figures, calls, last, response, parsed, logged, chat, ml, more >>

NextSchema == Analyze

SpecSchema == InitSchema /\ [][NextSchema]_vars

\* the analyses that returned a response
Returned == { r \in 1..Len(schema.runs) : schema.runs[r].out.returned }

ColumnsOfRun(r) == schema.runs[r].out.columns

\* unique-value ratio of a column below num/den
UniqueRatioBelow(col, num, den) == Len(col.hist) * den < num * RowsOf(col)

\* the type inference as the claim words it
StatedType(col) ==
    IF col.dtype = "number" THEN "numeric"
    ELSE IF col.dtype = "datetime" THEN "datetime"
    ELSE IF col.dtype = "bool" THEN "boolean"
    ELSE IF UniqueRatioBelow(col, 1, 20) THEN "categorical"
    ELSE IF UniqueRatioBelow(col, 1, 2) THEN "text"
    ELSE "categorical"

\* C17 as stated: every column is reported numeric, datetime or boolean by
\* its dtype (a boolean column as boolean), and otherwise categorical if its
\* unique-value ratio is below 0.05, else text if it is below 0.5, else
\* categorical.
C17_TypeInferenceAsStated ==
    \A r \in Returned :
        \A i \in 1..Len(schema.table) :
            ColumnsOfRun(r)[i].data_type = StatedType(schema.table[i])

\* C18: of the table of 100 rows, schema analysis reports column id (the
\* values 1..100) as a primary key, a null count of 5 for column age (5
\* missing values) and the categorical type for the text column city (8
\* distinct values).
C18_ExampleTable ==
    (schema.phase = "loaded" /\ schema.table = ExampleTable) =>
        \A r \in Returned :
            /\ ColumnsOfRun(r)[1].name = "id"
            /\ ColumnsOfRun(r)[1].is_primary_key
            /\ ColumnsOfRun(r)[2].name = "age"
            /\ ColumnsOfRun(r)[2].null_count = 5
            /\ ColumnsOfRun(r)[3].name = "city"
            /\ ColumnsOfRun(r)[3].data_type = "categorical"

\* C18 witness: an analysis of that table returned.
C18_Witness ==
    /\ schema.phase = "loaded"
    /\ schema.table = ExampleTable
    /\ 1 \in Returned
    /\ ColumnsOfRun(1)[1].is_primary_key
    /\ ColumnsOfRun(1)[2].null_count > 0
    /\ ColumnsOfRun(1)[3].data_type = "categorical"

\* every value of the column occurs once and none is null
AllDistinct(col) ==
    /\ \A v \in 1..Len(col.hist) : col.hist[v] = 1
    /\ col.nulls = 0

\* C19: in every response, a column is flagged is_primary_key exactly when
\* all of its values are distinct, none is null and the table has at least
\* one row, whatever the model's response says of the column.
C19_PrimaryKeyFlag ==
    \A r \in Returned :
        \A i \in 1..Len(schema.table) :
            ColumnsOfRun(r)[i].is_primary_key
                <=> (AllDistinct(schema.table[i]) /\ RowsOf(schema.table[i]) >= 1)

\* C19 witness: the model's response called id no key and city a key; the
\* response flags id and does not flag city.
C19_Witness ==
    /\ schema.phase = "loaded"
    /\ schema.table = ExampleTable
    /\ 1 \in Returned
    /\ InsightFor(schema.runs[1].reply, "id").is_primary_key = FALSE
    /\ InsightFor(schema.runs[1].reply, "id") # NoInsight
    /\ InsightFor(schema.runs[1].reply, "city").is_primary_key = TRUE
    /\ ColumnsOfRun(1)[1].is_primary_key
    /\ ~ColumnsOfRun(1)[3].is_primary_key

\* the statistics of the columns of a response, in the order it lists them
StatisticsOf(r) ==
    [i \in 1..Len(ColumnsOfRun(r)) |->
        << ColumnsOfRun(r)[i].name, ColumnsOfRun(r)[i].null_count,
           ColumnsOfRun(r)[i].unique_count, ColumnsOfRun(r)[i].is_primary_key,
           ColumnsOfRun(r)[i].data_type >>]

\* C20: any two analyses of the table that return, whatever the model
\* answered in each and whichever came first, list the columns in the
\* table's order with the same null count, unique count, primary-key flag
\* and data type.
C20_SameStatisticsEveryTime ==
    \A a \in Returned :
        /\ Len(ColumnsOfRun(a)) = Len(schema.table)
        /\ \A i \in 1..Len(schema.table) :
               ColumnsOfRun(a)[i].name = schema.table[i].name
        /\ \A b \in Returned : StatisticsOf(a) = StatisticsOf(b)

\* C20 witness: the documented table was analysed twice, with different
\* answers of the model, and both analyses returned.
C20_Witness ==
    /\ schema.phase = "loaded"
    /\ schema.table = ExampleTable
    /\ Returned = { 1, 2 }
    /\ schema.runs[1].reply.column_insights # << >>
    /\ schema.runs[2].reply.column_insights # schema.runs[1].reply.column_insights
    /\ StatisticsOf(1) = StatisticsOf(2)

(***************************************************************************)
(* The six agents as their callers see them.  Each builds its messages and *)
(* hands them to BaseAgent.chat_completion; what differs is the try block  *)
(* around that call.                                                       *)
(***************************************************************************)
\* chat_completion that asks the client again after a failure
ChatCompletion_Retry(reply) ==
    [reply |-> reply, requests |-> IF reply.status = "error" THEN 2 ELSE 1]

\* BaseAgent.chat_completion: one client.chat.completions.create call; its
\* exception is logged and re-raised
ChatCompletion(reply) == [reply |-> reply, requests |-> 1]

\* How a request reached its caller: "raised" (an exception of that kind),
\* "failure" (a value with success False and an error text), "success" (a
\* value of the shape of a successful answer) and the keys of the value.
Reached(how, kind, valueKeys, requests) ==
    [how |-> how, kind |-> kind, keys |-> valueKeys, llmCalls |-> requests]

ChatResponseKeys ==
    { "response", "code_executed", "visualization", "data_result", "suggestions" }

\* ChatAgent.execute: no try block
ChatAgentExecute(reply, df) ==
    LET c == ChatCompletion(reply)
        r == ProcessRequest(c.reply, df, << >>, 1)
    IN  IF r.out.status = "raised"
        THEN Reached("raised", r.out.raised, { }, c.requests)
        ELSE Reached("success", r.out.response.suffix, ChatResponseKeys, c.requests)

\* execute_cleaning and execute_feature_engineering: except Exception around
\* the completion call, the parse and the exec
ExecutorReached(reply, o) ==
    LET c == ChatCompletion(reply)
    IN  IF ~o.ret.returned THEN Reached("raised", "SystemExit", { }, c.requests)
        ELSE IF ~o.ret.success
        THEN Reached("failure", o.ret.error, o.ret.keys, c.requests)
        ELSE Reached("success", "", o.ret.keys, c.requests)

\* MLPrepAgent.prepare_for_ml: except Exception around the whole body
MlPrepReached(req) ==
    { Reached(IF o.result.success THEN "success" ELSE "failure", o.result.error,
              o.result.keys, o.llmCalls * ChatCompletion(req.reply).requests) :
      o \in PrepareForMl(req) }

SchemaAnalysisKeys == { "total_rows", "total_columns", "columns", "data_quality_score" }

\* SchemaAnalyzerAgent.execute: no try block
SchemaReached(dataframe, reply) ==
    LET got == SchemaExecute(dataframe, reply)
        n   == got.llmCalls * ChatCompletion(reply).requests
    IN  IF got.out.returned THEN Reached("success", "", SchemaAnalysisKeys, n)
        ELSE Reached("raised", got.out.raised, { }, n)

ReportKeys == { "title", "summary", "insights", "sections" }

\* ReportingAgent.generate_report_content: except Exception around the
\* completion call and the parse, answered with a report whose title is
\* "Error Generating Report"
GenerateReportContent(reply) ==
    LET c == ChatCompletion(reply)
    IN  IF reply.status = "error"
        THEN Reached("success", "Error Generating Report", ReportKeys, c.requests)
        ELSE IF ~ParseJsonResponse(reply.text).ok
        THEN Reached("success", "Error Generating Report", ReportKeys, c.requests)
        ELSE Reached("success", "", ReportKeys, c.requests)

(***************************************************************************)
(* SpecAgents: one request to one agent, with any answer of the completion *)
(* client.                                                                 *)
(***************************************************************************)
AgentMlRequests ==
    { Request(<< NumFeature(RowsOf(y)), y >>, t, << 1, 5 >>, "auto", "bool", r) :
      y \in { Column("y", "number", << 5, 5 >>, 0), Column("y", "object", << 1, 3 >>, 0) },
      t \in { "y", "z" }, r \in MlReplies }

AgentSchemaTables == { ExampleTable, << ColumnWith("c", "object", 0, 0, 0) >> }

\* a request that was made: the agent, the table, the client's answer
Asked(name, df, reply, reached) ==
    [phase |-> "done", name |-> name, df |-> df, status |-> reply.status,
     reply |-> reply, reached |-> reached]

InitAgents ==
    /\ agent = [phase |-> "ready"]
    /\ prompt = NoPrompt
    /\ session = NoSession
    /\ keys = NoKeys
    /\ ml = NoMl
    /\ schema = NoSchema
    /\ IdleExec
    /\ IdleParse
    /\ chat = NoChat

Others == << figures, calls, last, response, parsed, logged, chat, ml, schema >>

ChatRequest ==
    /\ agent.phase = "ready"
    /\ \E reply \in ChatReplies, df \in Tables :
           agent' = Asked("chat", df, reply, ChatAgentExecute(reply, df))
    /\ UNCHANGED << Others, prompt, session, keys >>

CleaningRequest ==
    /\ agent.phase = "ready"
    /\ \E reply \in Replies, df \in Tables :
           agent' = Asked("cleaning", df, reply,
                          ExecutorReached(reply, ExecuteCleaning(reply, df, << >>, 1)))
    /\ UNCHANGED << Others, prompt, session, keys >>

FeatureRequest ==
    /\ agent.phase = "ready"
    /\ \E reply \in Replies, df \in Tables :
           agent' = Asked("feature", df, reply,
                          ExecutorReached(reply,
                              ExecuteFeatureEngineering(reply, df, << >>, 1)))
    /\ UNCHANGED << Others, prompt, session, keys >>

MlPrepRequest ==
    /\ agent.phase = "ready"
    /\ \E req \in AgentMlRequests : \E reached \in MlPrepReached(req) :
           agent' = Asked("ml_prep", req, req.reply, reached)
    /\ UNCHANGED << Others, prompt, session, keys >>

SchemaRequest ==
    /\ agent.phase = "ready"
    /\ \E reply \in SchemaReplies, dataframe \in AgentSchemaTables :
           agent' = Asked("schema", dataframe, reply, SchemaReached(dataframe, reply))
    /\ UNCHANGED << Others, prompt, session, keys >>

ReportRequest ==
    /\ agent.phase = "ready"
    /\ \E reply \in Replies, df \in Tables :
           agent' = Asked("reporting", df, reply, GenerateReportContent(reply))
    /\ UNCHANGED << Others, prompt, session, keys >>

NextAgents ==
    \/ ChatRequest
    \/ CleaningRequest
    \/ FeatureRequest
    \/ MlPrepRequest
    \/ SchemaRequest
    \/ ReportRequest

SpecAgents == InitAgents /\ [][NextAgents]_vars

\* C21: in every agent, a request whose completion call failed reaches the
\* caller as a raised error, never as a failure value or a success-shaped one.
C21_CompletionFailurePropagates ==
    (agent.phase = "done" /\ agent.status = "error") => agent.reached.how = "raised"

\* C22: every agent operation makes at most one completion call per request,
\* whether the completion failed, the response was malformed or the generated
\* code failed.
C22_AtMostOneCompletionCall ==
    agent.phase = "done" => agent.reached.llmCalls <= 1

\* a request whose completion call failed, and one whose generated code failed
C22_Witness ==
    /\ agent.phase = "done"
    /\ agent.reached.llmCalls = 1
    /\ \/ agent.status = "error"
       \/ agent.reached.how = "failure" /\ agent.status = "ok"

(***************************************************************************)
(* The chat prompt (ChatAgent._format_user_prompt).  A history is a        *)
(* sequence of turns, oldest first; what the prompt embeds of it is either *)
(* the text "No previous history" or a sequence of turns.                  *)
(***************************************************************************)
HistoryLimit == 5

\* seq[start:] of Python for a start below zero: counted from the end, and
\* from the first element when the sequence is shorter
SliceFromEnd(seq, n) ==
    LET start == IF Len(seq) - n < 0 THEN 0 ELSE Len(seq) - n
    IN  SubSeq(seq, start + 1, Len(seq))

NoHistoryPlaceholder == [placeholder |-> TRUE, turns |-> << >>]

Embedded(turns) == [placeholder |-> FALSE, turns |-> turns]

\* the prompt with history[:5] in place of history[-5:]
FormatUserPrompt_Oldest(history) ==
    IF history # << >>
    THEN Embedded(SubSeq(history, 1, Min({ HistoryLimit, Len(history) })))
    ELSE NoHistoryPlaceholder

\* {history[-5:] if history else "No previous history"}
FormatUserPrompt(history) ==
    IF history # << >> THEN Embedded(SliceFromEnd(history, HistoryLimit))
    ELSE NoHistoryPlaceholder

(***************************************************************************)
(* SpecPrompt: the prompt of one chat request, for every history of up to  *)
(* MaxTurns turns of two speakers.                                         *)
(***************************************************************************)
Turns == { "user", "assistant" }

InitPrompt ==
    /\ prompt \in { [phase |-> "asked", history |-> h, embedded |-> NoHistoryPlaceholder] :
                    h \in SeqsUpTo(Turns, MaxTurns) }
    /\ agent = NoAgent
    /\ session = NoSession
    /\ keys = NoKeys
    /\ ml = NoMl
    /\ schema = NoSchema
    /\ IdleExec
    /\ IdleParse
    /\ chat = NoChat

FormatPrompt ==
    /\ prompt.phase = "asked"
    /\ prompt' = [prompt EXCEPT !.phase = "built",
                                !.embedded = FormatUserPrompt(prompt.history)]
    /\ UNCHANGED << Others, agent, session, keys >>

NextPrompt == FormatPrompt

SpecPrompt == InitPrompt /\ [][NextPrompt]_vars

\* C24: the prompt embeds the most recent turns of the history, at most 5 of
\* them and all of them when there are fewer, in their original order; for an
\* empty history it embeds the placeholder.
C24_LastFiveTurnsInOrder ==
    prompt.phase = "built" =>
        LET h == prompt.history
            e == prompt.embedded
            k == Len(e.turns)
        IN  IF h = << >> THEN e.placeholder
            ELSE /\ ~e.placeholder
                 /\ k <= 5
                 /\ k = Len(h) \/ k = 5
                 /\ \A i \in 1..k : e.turns[i] = h[Len(h) - k + i]

\* a history of more than 5 turns whose oldest turns differ from its latest
C24_Witness ==
    /\ prompt.phase = "built"
    /\ Len(prompt.history) > 5
    /\ Len(prompt.embedded.turns) = 5
    /\ SubSeq(prompt.history, 1, 5) # prompt.embedded.turns

(***************************************************************************)
(* A session's directory (utils/file_handler.py) and the route handlers    *)
(* that read and write it.  A file is absent or holds a content; the       *)
(* content of a dataset file records the upload it descends from and the   *)
(* clean request it descends from (0: none).                               *)
(***************************************************************************)
DatasetNames == { "original.csv", "cleaned.csv", "engineered.csv" }

SplitNames == { "X_train.csv", "X_test.csv", "y_train.csv", "y_test.csv" }

ReportNames == { "report.pdf", "report.html" }

\* the name the client gave the file it uploads
UploadName == "data.csv"

FileNames == DatasetNames \cup SplitNames \cup ReportNames \cup { UploadName }

NoFile == [kind |-> "absent", upload |-> 0, clean |-> 0]

Dataset(upload, clean) == [kind |-> "table", upload |-> upload, clean |-> clean]

Artifact(kind, from) == [kind |-> kind, upload |-> from.upload, clean |-> from.clean]

Exists(files, name) == files[name] # NoFile

\* the directory a request works on, and the names it has written so far
Fs(files) == [files |-> files, wrote |-> { }]

\* file_handler.save_dataframe, save_upload, and the report generator's open()
SaveDataframe(fs, name, content) ==
    [files |-> [fs.files EXCEPT ![name] = content], wrote |-> fs.wrote \cup { name }]

\* the precedence loop with the last of the names that exists
LoadFirst_Reversed(files, names) ==
    LET found == { i \in 1..Len(names) : Exists(files, names[i]) }
    IN  IF found = { } THEN ""
        ELSE names[CHOOSE i \in found : \A j \in found : j <= i]

\* file_handler.load_dataframe tried on each of names in turn, the next one
\* after a FileNotFoundError: the name loaded, "" when none exists
LoadFirst(files, names) ==
    LET found == { i \in 1..Len(names) : Exists(files, names[i]) }
    IN  IF found = { } THEN "" ELSE names[Min(found)]

\* What the body of a handler's try block ends with: a return, or an
\* exception of some kind (an HTTPException carries its status).
Answered(fs, read, agentOutcome) ==
    [raised |-> "", status |-> 200, fs |-> fs, read |-> read, agent |-> agentOutcome]

Thrown(kind, status, fs, read, agentOutcome) ==
    [raised |-> kind, status |-> status, fs |-> fs, read |-> read,
     agent |-> agentOutcome]

\* except Exception as e: raise HTTPException(status_code=500, ...): an
\* HTTPException raised in the try block is an Exception too
ExceptException(r) ==
    IF r.raised = "" THEN r
    ELSE [r EXCEPT !.raised = "HTTPException", !.status = 500]

\* except FileNotFoundError: 404, except ValueError: 400, except Exception: 500
ExceptByKind(r) ==
    IF r.raised = "FileNotFoundError"
    THEN [r EXCEPT !.raised = "HTTPException", !.status = 404]
    ELSE IF r.raised = "ValueError"
    THEN [r EXCEPT !.raised = "HTTPException", !.status = 400]
    ELSE ExceptException(r)

\* except HTTPException: raise, then except Exception: 500
ExceptHttpFirst(r) == IF r.raised = "HTTPException" THEN r ELSE ExceptException(r)

\* clean_dataset with the table saved before the agent's success is tested
CleanDataset_SaveFirst(files, success, clean) ==
    ExceptException(
        IF ~Exists(files, "original.csv")
        THEN Thrown("HTTPException", 404, Fs(files), "", "none")
        ELSE LET saved == SaveDataframe(Fs(files), "cleaned.csv",
                                        Dataset(files["original.csv"].upload, clean))
             IN  IF ~success
                 THEN Thrown("HTTPException", 500, saved, "original.csv", "failure")
                 ELSE Answered(saved, "original.csv", "success"))

\* routers.clean.clean_dataset
CleanDataset(files, success, clean) ==
    ExceptException(
        IF ~Exists(files, "original.csv")
        THEN Thrown("HTTPException", 404, Fs(files), "", "none")
        ELSE IF ~success
        THEN Thrown("HTTPException", 500, Fs(files), "original.csv", "failure")
        ELSE Answered(SaveDataframe(Fs(files), "cleaned.csv",
                                    Dataset(files["original.csv"].upload, clean)),
                      "original.csv", "success"))

\* routers.feature_engineering.generate_features
GenerateFeatures(files, success) ==
    LET name == LoadFirst(files, << "cleaned.csv", "original.csv" >>)
    IN  ExceptException(
            IF name = "" THEN Thrown("HTTPException", 404, Fs(files), "", "none")
            ELSE IF ~success
            THEN Thrown("HTTPException", 500, Fs(files), name, "failure")
            ELSE Answered(SaveDataframe(Fs(files), "engineered.csv", files[name]),
                          name, "success"))

\* the four save_dataframe calls of routers.ml_prep.prepare_for_ml
SaveSplits(fs, from) ==
    SaveDataframe(SaveDataframe(SaveDataframe(SaveDataframe(fs,
        "X_train.csv", Artifact("split", from)),
        "X_test.csv", Artifact("split", from)),
        "y_train.csv", Artifact("split", from)),
        "y_test.csv", Artifact("split", from))

\* routers.ml_prep.prepare_for_ml
PrepareForMlEndpoint(files, success) ==
    LET name == LoadFirst(files, << "engineered.csv", "cleaned.csv", "original.csv" >>)
    IN  ExceptHttpFirst(
            IF name = "" THEN Thrown("HTTPException", 404, Fs(files), "", "none")
            ELSE IF ~success
            THEN Thrown("HTTPException", 500, Fs(files), name, "failure")
            ELSE Answered(SaveSplits(Fs(files), files[name]), name, "success"))

\* routers.report.generate_report; format is "pdf", "html" or "both"
GenerateReport(files, format) ==
    LET name == LoadFirst(files, << "engineered.csv", "cleaned.csv", "original.csv" >>)
        pdf  == IF format \in { "pdf", "both" }
                THEN SaveDataframe(Fs(files), "report.pdf", Artifact("report", files[name]))
                ELSE Fs(files)
        html == IF format \in { "html", "both" }
                THEN SaveDataframe(pdf, "report.html", Artifact("report", files[name]))
                ELSE pdf
    IN  ExceptException(
            IF name = "" THEN Thrown("HTTPException", 404, Fs(files), "", "none")
            ELSE Answered(html, name, "success"))

\* routers.chat.chat_with_data; the agent returns or raises
ChatWithData(files, success) ==
    LET name == LoadFirst(files, << "cleaned.csv", "original.csv" >>)
    IN  ExceptByKind(
            IF name = "" THEN Thrown("FileNotFoundError", 0, Fs(files), "", "none")
            ELSE IF ~success THEN Thrown("Exception", 0, Fs(files), name, "raised")
            ELSE Answered(Fs(files), name, "success"))

\* routers.analyze.analyze_dataset; the agent returns or raises
AnalyzeDataset(files, success) ==
    LET name == LoadFirst(files, << "original.csv" >>)
    IN  ExceptByKind(
            IF name = "" THEN Thrown("FileNotFoundError", 0, Fs(files), "", "none")
            ELSE IF ~success THEN Thrown("Exception", 0, Fs(files), name, "raised")
            ELSE Answered(Fs(files), name, "success"))

\* routers.export.download_file
DownloadFile(files, filename) ==
    ExceptException(
        IF ~Exists(files, filename)
        THEN Thrown("HTTPException", 404, Fs(files), "", "none")
        ELSE Answered(Fs(files), filename, "none"))

\* routers.upload.upload_file: the upload is saved under its own name, parsed
\* (a ValueError if it cannot be), and saved again as original.csv
UploadFile(files, parses, upload) ==
    LET saved == SaveDataframe(Fs(files), UploadName, Artifact("upload", Dataset(upload, 0)))
    IN  ExceptByKind(
            IF ~parses THEN Thrown("ValueError", 0, saved, "", "none")
            ELSE Answered(SaveDataframe(saved, "original.csv", Dataset(upload, 0)),
                          "", "none"))

\* routers.upload.upload_pasted_data
UploadPastedData(files, parses, upload) ==
    ExceptByKind(
        IF ~parses THEN Thrown("ValueError", 0, Fs(files), "", "none")
        ELSE Answered(SaveDataframe(Fs(files), "original.csv", Dataset(upload, 0)),
                      "", "none"))

(***************************************************************************)
(* SpecSession: up to MaxRequests requests on one session, in any order.   *)
(* Every handler is a coroutine that does not await between its reads and  *)
(* its writes, so requests follow one another.                             *)
(***************************************************************************)
NoRequest ==
    [endpoint |-> "", status |-> 0, read |-> "", input |-> NoFile, wrote |-> { },
     had |-> { }, agent |-> "none"]

InitSession ==
    /\ session = [phase |-> "open", files |-> [f \in FileNames |-> NoFile],
                  uploads |-> 0, cleans |-> 0, n |-> 0, last |-> NoRequest]
    /\ agent = NoAgent
    /\ prompt = NoPrompt
    /\ keys = NoKeys
    /\ ml = NoMl
    /\ schema = NoSchema
    /\ IdleExec
    /\ IdleParse
    /\ chat = NoChat

\* the session after a request to endpoint ended as r
After(endpoint, r) ==
    [session EXCEPT
        !.files = r.fs.files,
        !.n = @ + 1,
        !.uploads = IF endpoint \in { "upload", "paste" } /\ r.status = 200
                    THEN @ + 1 ELSE @,
        !.cleans = IF endpoint = "clean" /\ r.status = 200 THEN @ + 1 ELSE @,
        !.last = [endpoint |-> endpoint, status |-> r.status, read |-> r.read,
                  input |-> IF r.read = "" THEN NoFile ELSE session.files[r.read],
                  wrote |-> r.fs.wrote,
                  had |-> { d \in DatasetNames : Exists(session.files, d) },
                  agent |-> r.agent]]

Open == session.phase = "open" /\ session.n < MaxRequests

Upload ==
    /\ Open
    /\ \E parses \in BOOLEAN :
           session' = After("upload", UploadFile(session.files, parses,
                                                 session.uploads + 1))
    /\ UNCHANGED << Others, agent, prompt, keys >>

Paste ==
    /\ Open
    /\ \E parses \in BOOLEAN :
           session' = After("paste", UploadPastedData(session.files, parses,
                                                      session.uploads + 1))
    /\ UNCHANGED << Others, agent, prompt, keys >>

AnalyzeSession ==
    /\ Open
    /\ \E success \in BOOLEAN :
           session' = After("analyze", AnalyzeDataset(session.files, success))
    /\ UNCHANGED << Others, agent, prompt, keys >>

ChatSession ==
    /\ Open
    /\ \E success \in BOOLEAN :
           session' = After("chat", ChatWithData(session.files, success))
    /\ UNCHANGED << Others, agent, prompt, keys >>

Clean ==
    /\ Open
    /\ \E success \in BOOLEAN :
           session' = After("clean", CleanDataset(session.files, success,
                                                  session.cleans + 1))
    /\ UNCHANGED << Others, agent, prompt, keys >>

Features ==
    /\ Open
    /\ \E success \in BOOLEAN :
           session' = After("features", GenerateFeatures(session.files, success))
    /\ UNCHANGED << Others, agent, prompt, keys >>

MlPrep ==
    /\ Open
    /\ \E success \in BOOLEAN :
           session' = After("ml_prep", PrepareForMlEndpoint(session.files, success))
    /\ UNCHANGED << Others, agent, prompt, keys >>

Report ==
    /\ Open
    /\ \E format \in { "pdf", "html", "both" } :
           session' = After("report", GenerateReport(session.files, format))
    /\ UNCHANGED << Others, agent, prompt, keys >>

Download ==
    /\ Open
    /\ \E filename \in FileNames :
           session' = After("download", DownloadFile(session.files, filename))
    /\ UNCHANGED << Others, agent, prompt, keys >>

NextSession ==
    \/ Upload
    \/ Paste
    \/ AnalyzeSession
    \/ ChatSession
    \/ Clean
    \/ Features
    \/ MlPrep
    \/ Report
    \/ Download

SpecSession == InitSession /\ [][NextSession]_vars

\* C25: only an upload writes original.csv; a clean request writes nothing
\* but cleaned.csv, a feature-engineering request nothing but engineered.csv,
\* an ML-prep request nothing but the four split files; and such a request
\* writes no file at all when its agent reported failure.
C25_WhoWritesWhat ==
    LET r == session.last
    IN  /\ "original.csv" \in r.wrote => r.endpoint \in { "upload", "paste" }
        /\ r.endpoint = "clean" => r.wrote \subseteq { "cleaned.csv" }
        /\ r.endpoint = "features" => r.wrote \subseteq { "engineered.csv" }
        /\ r.endpoint = "ml_prep" =>
               r.wrote \subseteq { "X_train.csv", "X_test.csv", "y_train.csv", "y_test.csv" }
        /\ (r.endpoint \in { "clean", "features", "ml_prep" } /\ r.agent = "failure")
               => r.wrote = { }

\* a clean request on an uploaded dataset whose agent reported failure, in a
\* session that already has a cleaned.csv
C25_Witness ==
    /\ session.last.endpoint = "clean"
    /\ session.last.agent = "failure"
    /\ session.last.read = "original.csv"
    /\ "cleaned.csv" \in session.last.had
    /\ session.last.wrote = { }

\* the dataset an endpoint reads when the session holds the datasets had
Precedence(endpoint, had) ==
    LET order == IF endpoint \in { "analyze", "clean" } THEN << "original.csv" >>
                 ELSE IF endpoint \in { "chat", "features" }
                 THEN << "cleaned.csv", "original.csv" >>
                 ELSE << "engineered.csv", "cleaned.csv", "original.csv" >>
        here  == { i \in 1..Len(order) : order[i] \in had }
    IN  IF here = { } THEN ""
        ELSE order[CHOOSE i \in here : \A j \in here : i <= j]

\* C26: analyze and clean read original.csv; chat and feature engineering
\* read cleaned.csv if it exists, else original.csv; ML prep and report read
\* engineered.csv if it exists, else cleaned.csv, else original.csv.
C26_InputPrecedence ==
    LET r == session.last
    IN  r.endpoint \in { "analyze", "clean", "chat", "features", "ml_prep", "report" }
            => r.read = Precedence(r.endpoint, r.had)

\* an ML-prep request on a session with original.csv and cleaned.csv only
C26_Witness ==
    /\ session.last.endpoint = "ml_prep"
    /\ session.last.had = { "original.csv", "cleaned.csv" }
    /\ session.last.read = "cleaned.csv"
    /\ session.last.status = 200

\* C27: a chat, feature-engineering, ML-prep or report request works on a
\* dataset that descends from the latest upload, and an ML-prep or report
\* request that reads engineered.csv on one that descends from the latest
\* successful clean.
C27_NoStaleArtifacts ==
    LET r == session.last
    IN  /\ (r.endpoint \in { "chat", "features", "ml_prep", "report" } /\ r.read # "")
               => r.input.upload = session.uploads
        /\ (r.endpoint \in { "ml_prep", "report" } /\ r.read = "engineered.csv")
               => r.input.clean = session.cleans

\* C28: a request for a dataset or file that does not exist is answered 404.
C28_MissingDatasetIs404 ==
    LET r == session.last
    IN  (/\ r.endpoint \in { "analyze", "chat", "clean", "features", "report",
                             "ml_prep", "download" }
         /\ r.read = "")
            => r.status = 404

(***************************************************************************)
(* API keys (services/openai_manager.py, routers/auth.py).  A key or a     *)
(* session id is a text or Python's None; the dictionary _session_keys     *)
(* gives every session its key, or None when it holds none (the keys it    *)
(* stores are never None).                                                 *)
(***************************************************************************)
None == "None"

\* bool(x) of a text or None
Truthy(x) == x \notin { None, "" }

\* OpenAIManager.set_session_key
SetSessionKey(session_keys, session_id, api_key) ==
    [session_keys EXCEPT ![session_id] = api_key]

\* OpenAIManager.remove_session_key
RemoveSessionKey(session_keys, session_id) ==
    IF session_keys[session_id] # None
    THEN [session_keys EXCEPT ![session_id] = None]
    ELSE session_keys

Client(api_key) == [raised |-> "", api_key |-> api_key]

NoClient == [raised |-> "ValueError", api_key |-> None]

\* get_client that looks at the system key before the session's key
GetClient_SystemFirst(system_api_key, session_keys, session_id, api_key) ==
    IF Truthy(api_key) THEN Client(api_key)
    ELSE IF Truthy(system_api_key) THEN Client(system_api_key)
    ELSE IF Truthy(session_id) /\ session_keys[session_id] # None
    THEN Client(session_keys[session_id])
    ELSE NoClient

\* OpenAIManager.get_client
GetClient(system_api_key, session_keys, session_id, api_key) ==
    IF Truthy(api_key) THEN Client(api_key)
    ELSE IF Truthy(session_id) /\ session_keys[session_id] # None
    THEN Client(session_keys[session_id])
    ELSE IF Truthy(system_api_key) THEN Client(system_api_key)
    ELSE NoClient

(***************************************************************************)
(* SpecKeys: a process started with or without a system key; requests to   *)
(* set and remove the keys of two sessions, and lookups of a client.       *)
(***************************************************************************)
Sessions == { "s1", "s2" }

UserKeys == { "k1", "k2" }

NoLookup == [made |-> FALSE, session_id |-> None, api_key |-> None, client |-> NoClient]

\* calls |-> the set_session_key and remove_session_key calls made, in order
InitKeys ==
    /\ keys \in { [phase |-> "open", system_api_key |-> k,
                   session_keys |-> [x \in Sessions |-> None],
                   calls |-> << >>, last |-> NoLookup] : k \in { None, "", "sys" } }
    /\ agent = NoAgent
    /\ prompt = NoPrompt
    /\ session = NoSession
    /\ ml = NoMl
    /\ schema = NoSchema
    /\ IdleExec
    /\ IdleParse
    /\ chat = NoChat

\* routers.auth.set_api_key: the key is stored when the request names a
\* session and the key passed validation
SetApiKey ==
    /\ keys.phase = "open"
    /\ Len(keys.calls) < MaxKeyCalls
    /\ \E session_id \in Sessions \cup { None }, api_key \in UserKeys, is_valid \in BOOLEAN :
           keys' = IF Truthy(session_id) /\ is_valid
                   THEN [keys EXCEPT
                            !.session_keys = SetSessionKey(@, session_id, api_key),
                            !.calls = Append(@, [op |-> "set", session_id |-> session_id,
                                                 api_key |-> api_key]),
                            !.last = NoLookup]
                   ELSE [keys EXCEPT !.last = NoLookup]
    /\ UNCHANGED << Others, agent, prompt, session >>

\* routers.auth.remove_api_key
RemoveApiKey ==
    /\ keys.phase = "open"
    /\ Len(keys.calls) < MaxKeyCalls
    /\ \E session_id \in Sessions \cup { None } :
           keys' = IF Truthy(session_id)
                   THEN [keys EXCEPT
                            !.session_keys = RemoveSessionKey(@, session_id),
                            !.calls = Append(@, [op |-> "remove", session_id |-> session_id,
                                                 api_key |-> None]),
                            !.last = NoLookup]
                   ELSE [keys EXCEPT !.last = NoLookup]
    /\ UNCHANGED << Others, agent, prompt, session >>

\* openai_manager.get_client(session_id) of a route handler, or with a key
GetClientCall ==
    /\ keys.phase = "open"
    /\ \E session_id \in Sessions \cup { None }, api_key \in { None, "", "explicit" } :
           keys' = [keys EXCEPT
                       !.last = [made |-> TRUE, session_id |-> session_id,
                                 api_key |-> api_key,
                                 client |-> GetClient(keys.system_api_key,
                                                      keys.session_keys,
                                                      session_id, api_key)]]
    /\ UNCHANGED << Others, agent, prompt, session >>

NextKeys == SetApiKey \/ RemoveApiKey \/ GetClientCall

SpecKeys == InitKeys /\ [][NextKeys]_vars

\* the key the latest of the calls about session_id left stored for it
RECURSIVE StoredBy(_, _)
StoredBy(made, session_id) ==
    IF made = << >> THEN None
    ELSE LET c == made[Len(made)]
         IN  IF c.session_id = session_id
             THEN IF c.op = "set" THEN c.api_key ELSE None
             ELSE StoredBy(SubSeq(made, 1, Len(made) - 1), session_id)

\* C29: get_client uses the explicitly provided key; else the key last set
\* for that session and not removed since; else the system key; else it
\* raises.  Calls about another session never change the outcome.
C29_KeyPriority ==
    keys.last.made =>
        LET l      == keys.last
            stored == IF l.session_id = None THEN None
                      ELSE StoredBy(keys.calls, l.session_id)
        IN  l.client =
                IF l.api_key \notin { None, "" } THEN [raised |-> "", api_key |-> l.api_key]
                ELSE IF stored # None THEN [raised |-> "", api_key |-> stored]
                ELSE IF keys.system_api_key \notin { None, "" }
                THEN [raised |-> "", api_key |-> keys.system_api_key]
                ELSE [raised |-> "ValueError", api_key |-> None]

\* a lookup for s1 after s1's key was removed while s2 still holds one, in a
\* process that has a system key
C29_Witness ==
    /\ keys.last.made
    /\ keys.last.session_id = "s1"
    /\ keys.last.api_key = None
    /\ keys.system_api_key = "sys"
    /\ keys.session_keys["s2"] # None
    /\ \E i \in 1..Len(keys.calls) :
           keys.calls[i] = [op |-> "set", session_id |-> "s1", api_key |-> "k1"]
    /\ keys.last.client = [raised |-> "", api_key |-> "sys"]

\* C30: when the generated chat code ran to completion, the chat operation
\* returns a ChatResponse whatever the value bound to `result` is: a table, a
\* series, a scalar, None, a list, an array or a dict.
C30_NormalizationNeverRaises ==
    ChatSucceeded => chat.out.status = "response"
====
